---- MODULE Spec2Model ----
(***************************************************************************)
(* Model of docker-vm-runner's VM lifecycle engine: app/cli.py main,       *)
(* app/services.py ServiceManager and app/vm.py VMManager.                 *)
(*                                                                         *)
(* The environment (libvirt, the guest, child processes, the filesystem,  *)
(* the operator sending signals) is nondeterministic; every call into it   *)
(* draws its outcome with \E.  A signal delivered while the interpreter's  *)
(* default handlers are installed raises KeyboardInterrupt (SIGINT) at    *)
(* the current position of main, or ends the process (SIGTERM).  A SIGTERM *)
(* that the kernel drops because the program runs as PID 1 changes no      *)
(* state and is a stuttering step.                                         *)
(***************************************************************************)
EXTENDS Integers, Sequences, FiniteSets, TLC

\* ---------------------------------------------------------------- bounds
MaxSignals == 3      \* signals handled inside wait_until_stopped (SpecWait)
MainSignals == 1     \* signals handled inside wait_until_stopped (Spec)
MaxTime == 4         \* seconds of wall clock observed inside wait_until_stopped
MaxBootLen == 3      \* length of BOOT_ORDER lists explored by SpecPrepare
MaxDiskSize == 3     \* largest virtual disk size and DISK_SIZE, in GiB (SpecImage)
MaxStopCalls == 3    \* calls of ServiceManager.stop (SpecStop)
MaxPort == 3         \* port numbers 1..MaxPort stand for 1..65535
MaxForwards == 2     \* entries of PORT_FWD
MaxNics == 2         \* network interfaces of a VMConfig (NETWORK1, NETWORK2, ...)
MaxRenders == 2      \* calls of _render_domain_xml on one VMManager
MaxRetries == 5      \* largest retries argument of download_file_with_retry

\* ------------------------------------------------------ program constants
DOUBLE_PRESS_WINDOW == 3
NoTime == 0 - 1      \* _first_sigint_time = None
REUSE_THRESHOLD == 100   \* MiB; vm.py 285: 100 * 1024 * 1024 bytes
DEFAULT_RETRIES == 3     \* utils.py 253 and models.py 110
NoDisk == 0 - 1      \* the working disk file does not exist
Unseen == 0 - 2      \* _prepare_work_image has not looked at the disk yet

BootDevices == {"hd", "cdrom", "network"}
ConsoleCodes == {0, 1, 0 - 15}
Keywords == {"cgroup", "passt", "backend"}

VARIABLES
    pc,               \* position of main
    outcome,          \* "running" | "returned" | "uncaught" | "killed"
    retcode,          \* value main returns; NoCode until a return statement ran
    pending,          \* exception propagating out of main ("none" if none)
    err,              \* first error (not interrupt) raised in this run
    entered_try,      \* main reached line 389
    vm_started,       \* cli.py local vm_started
    teardown,         \* teardown calls made by the finally block, in order
    cfg,              \* the VMConfig (boot_order is mutated by prepare)
    console_requested,
    processes,        \* ServiceManager.processes (list of child names)
    alive,            \* children spawned and not yet terminated
    svc_shutdown,     \* ServiceManager._shutdown
    novnc_started,    \* ServiceManager._novnc_started
    conn,             \* "none" | "open" | "closed"
    domain,           \* "none" | "defined"
    domain_active,    \* libvirt's view: the domain is running
    xml_passt,        \* the defined XML holds <backend type="passt"/>
    create_calls,     \* number of domain.create() calls
    redefines,        \* number of conn.defineXML calls made by the fallback
    boot_iso,         \* VMManager.boot_iso is set
    disk_reused,      \* VMManager._disk_reused
    work_disk,        \* file size of the working disk in MiB, NoDisk if absent
    marker,           \* install marker file exists
    marker_written,   \* this run wrote the marker
    skip,             \* the smart install-skip decision taken by prepare
    disk_before,      \* working disk file as _prepare_work_image found it
    order_before,     \* cfg.boot_order as parse_env returned it
    tpm_process,      \* VMManager._tpm_process is a running swtpm child
    start_in,         \* what libvirt answered to the calls of start()
    rootless,         \* ServiceManager.runtime.rootless
    socket_seen,      \* _wait_for_libvirt saw the libvirtd socket appear
    connect_attempted,\* VMManager.connect called libvirt.open
    files,            \* cached artefacts that exist on disk
    vsize,            \* virtual size of the working disk in GiB (0 if absent)
    vsize_before,     \* vsize as _prepare_work_image found it
    iso_downloads,    \* downloads of the boot source made by this run
    writes,           \* files written by prepare in this run
    run,              \* 1 for the first prepare, 2 when prepare was run again
    steps,            \* prepare steps started in this run, in order
    cleanup_log,      \* what the last cleanup() call did
    prev_handlers,    \* handlers saved by wait_until_stopped (prev_sigterm/int)
    stubborn,         \* tracked children that do not exit within 5 s of SIGTERM
    sent,             \* signals ServiceManager.stop sent, in order
    stop_calls,       \* calls of ServiceManager.stop made so far
    sockets,          \* what lies at each libvirt socket path
    sock_idx,         \* index of the next path _start_libvirt hands to _cleanup_socket
    sock_last,        \* what the last _cleanup_socket call found and did
    dl,               \* download_file_with_retry: retries, attempts made, sleeps, result
    dest,             \* content at the destination path of the download
    tmp_left,         \* temporary files left in the destination directory
    port_env,         \* the port settings parse_env reads from the environment
    port_cfg,         \* what parse_env made of them: not run, raised, or the ports
    render_cfg,       \* the boot order, NICs and boot ISO _render_domain_xml works on
    network_macs,     \* VMManager._network_macs: the MAC resolved for each NIC index
    rendered,         \* what each call of _render_domain_xml produced, in order
    free_space,       \* GiB available in the VM directory (statvfs), 0 when unknown
    space_log,        \* what check_disk_space did in _prepare_work_image
    ci,               \* the cloud-init phase of wait_for_guest_ready
    sw,               \* _wait_for_libvirt: the path waited for and the seconds spent
    define_log,       \* what _define_domain found and how often it called defineXML
    pe,               \* parse_env: the boot-related environment and what was derived from it
    handlers,         \* installed signal handlers
    shutdown_requested,
    first_sigint_time,
    now,
    shutdown_calls,   \* domain.shutdown() calls made by _do_shutdown
    destroy_calls,    \* domain.destroy() calls made by _do_shutdown
    shutdown_res,     \* how the domain.shutdown() call of _do_shutdown ended
    late_polls,       \* parity of the polls made since the clock reached MaxTime
    siglog,           \* signals handled by _request_shutdown, with their time
    shutdown_at,      \* index in siglog of the signal that initiated shutdown
    console_state     \* virsh console child

mainVars == <<pc, outcome, retcode, pending, err, entered_try, vm_started, teardown>>
cfgVars  == <<cfg, console_requested>>
svcVars  == <<processes, alive, svc_shutdown, novnc_started>>
virtVars == <<conn, domain, domain_active, xml_passt, create_calls, redefines, start_in>>
prepVars == <<boot_iso, disk_reused, work_disk, marker, marker_written, skip,
              disk_before, order_before, tpm_process>>
waitVars == <<handlers, shutdown_requested, first_sigint_time, now, shutdown_calls,
              destroy_calls, shutdown_res, late_polls, siglog, shutdown_at, prev_handlers>>
hostVars == <<rootless, socket_seen, connect_attempted>>
imgVars  == <<files, vsize, vsize_before, iso_downloads, writes, run, steps>>
stopVars == <<stubborn, sent, stop_calls>>
sockVars == <<sockets, sock_idx, sock_last>>
dlVars == <<dl, dest, tmp_left>>
portVars == <<port_env, port_cfg>>
renderVars == <<render_cfg, network_macs, rendered>>
spaceVars == <<free_space, space_log>>
ciVars == <<ci>>
swVars == <<sw>>
defVars == <<define_log>>
peVars == <<pe>>
unitVars == <<stopVars, sockVars, dlVars, portVars, renderVars, spaceVars, ciVars, swVars, defVars, peVars>>
vars == <<mainVars, cfgVars, hostVars, imgVars, cleanup_log, svcVars, virtVars, prepVars,
          waitVars, console_state, unitVars>>

NoCode == 0 - 99

\* ------------------------------------------------------------- helpers
\* boot orders parse_env can return: non-empty lists over the three devices;
\* an ISO boot source puts cdrom in the list (config.py 116-127)
RECURSIVE SeqsUpTo(_, _)
SeqsUpTo(S, n) ==
    IF n = 0 THEN {<<>>}
    ELSE LET shorter == SeqsUpTo(S, n - 1)
         IN  shorter \cup {Append(s, d) : s \in shorter, d \in S}

InSeq(x, s) == \E i \in 1..Len(s) : s[i] = x

RECURSIVE Without(_, _)
Without(s, x) ==
    IF s = <<>> THEN <<>>
    ELSE IF Head(s) = x THEN Without(Tail(s), x)
    ELSE <<Head(s)>> \o Without(Tail(s), x)

BootOrders(isoRequested, n) ==
    {s \in SeqsUpTo(BootDevices, n) :
        /\ s # <<>>
        /\ isoRequested => InSeq("cdrom", s)}


\* ------------------------------------------- pure decisions of the code
\* vm.py 283-285: the persistent disk is reused when it exists and its
\* file size exceeds 100 MiB
DiskReused(persist, disk) == persist /\ disk # NoDisk /\ disk > REUSE_THRESHOLD

\* the skip decided without looking at whether the disk was reused
SmartSkipApplies_noReuse(bootIso, reused, installed, forceIso) ==
    bootIso /\ installed /\ ~forceIso

\* vm.py 143: condition of the smart install-skip
SmartSkipApplies(bootIso, reused, installed, forceIso) ==
    bootIso /\ reused /\ installed /\ ~forceIso

\* vm.py 146-149: boot_order after the smart install-skip
SkipBootOrder(order) ==
    LET noCd == IF InSeq("cdrom", order) THEN Without(order, "cdrom") ELSE order
    IN  IF ~InSeq("hd", noCd) THEN <<"hd">> \o noCd ELSE noCd

\* constants.py 127
CONVERTIBLE_FORMATS == {"vhd", "vhdx", "vmdk", "vdi"}

\* formats detect_image_format reports for a downloaded or given image,
\* told apart by what _post_process_image does with them
DetectedFormats == {"qcow2", "raw", "vmdk", "unknown"}

\* vm.py 250-265: _post_process_image converts a foreign or raw image to
\* qcow2 and writes the resulting format into cfg.image_format
PostProcessCfg(c, detected) ==
    LET actual == IF detected \in CONVERTIBLE_FORMATS \/ detected = "raw"
                  THEN "qcow2" ELSE detected
    IN  IF actual # c.image_format THEN [c EXCEPT !.image_format = actual] ELSE c

\* the smart install-skip leaves the configuration alone
SmartSkipCfg_kept(c, apply) == c

\* vm.py 143-149: the smart install-skip rewrites cfg.boot_order
SmartSkipCfg(c, apply) ==
    IF apply THEN [c EXCEPT !.boot_order = SkipBootOrder(c.boot_order)] ELSE c

\* the cgroup test applied only to messages that name nothing else
CgroupError_alone(msg) == msg = {"cgroup"}

\* vm.py 987 and 993: classification of the (lower-cased) message of a
\* failed create
CgroupError(msg) == "cgroup" \in msg
NetworkBackendError(msg) == "passt" \in msg \/ "backend" \in msg

\* the fallback re-defining the domain whatever its XML holds
TryNetworkFallback_anyXml(connOpen, dom, hasPasst, xmlDescOk, defineRes, create2Ok) ==
    IF ~connOpen \/ dom = "none"
    THEN [ok |-> FALSE, redefines |-> 0, creates |-> 0, domain |-> dom]
    ELSE IF ~xmlDescOk
    THEN [ok |-> FALSE, redefines |-> 0, creates |-> 0, domain |-> dom]
    ELSE IF defineRes = "error"
    THEN [ok |-> FALSE, redefines |-> 1, creates |-> 0, domain |-> dom]
    ELSE IF defineRes = "none"
    THEN [ok |-> FALSE, redefines |-> 1, creates |-> 0, domain |-> "none"]
    ELSE [ok |-> create2Ok, redefines |-> 1, creates |-> 1, domain |-> "defined"]

\* vm.py 1009-1033: _try_network_fallback.  defineRes is the outcome of
\* conn.defineXML: "ok", "none" (returned None) or "error" (libvirtError)
TryNetworkFallback(connOpen, dom, hasPasst, xmlDescOk, defineRes, create2Ok) ==
    IF ~connOpen \/ dom = "none"
    THEN [ok |-> FALSE, redefines |-> 0, creates |-> 0, domain |-> dom]
    ELSE IF ~xmlDescOk \/ ~hasPasst
    THEN [ok |-> FALSE, redefines |-> 0, creates |-> 0, domain |-> dom]
    ELSE IF defineRes = "error"
    THEN [ok |-> FALSE, redefines |-> 1, creates |-> 0, domain |-> dom]
    ELSE IF defineRes = "none"
    THEN [ok |-> FALSE, redefines |-> 1, creates |-> 0, domain |-> "none"]
    ELSE [ok |-> create2Ok, redefines |-> 1, creates |-> 1, domain |-> "defined"]

\* vm.py 976-1007: start, up to the start_novnc call; text is the error
\* start raises: "undefined" (Domain not defined), "cgroupns_host" (the
\* message that tells to run the container with --cgroupns=host) or
\* "failed_to_start" (Failed to start domain)
StartOutcome(dom, active, createOk, msg, fb) ==
    IF dom = "none"
    THEN [raise |-> "ManagerError", creates |-> 0, fallback |-> FALSE, running |-> FALSE,
          text |-> "undefined"]
    ELSE IF active
    THEN [raise |-> "none", creates |-> 0, fallback |-> FALSE, running |-> TRUE,
          text |-> "none"]
    ELSE IF createOk
    THEN [raise |-> "none", creates |-> 1, fallback |-> FALSE, running |-> TRUE,
          text |-> "none"]
    ELSE IF CgroupError(msg)
    THEN [raise |-> "ManagerError", creates |-> 1, fallback |-> FALSE, running |-> FALSE,
          text |-> "cgroupns_host"]
    ELSE IF NetworkBackendError(msg)
    THEN [raise |-> IF fb.ok THEN "none" ELSE "ManagerError",
          creates |-> 1, fallback |-> TRUE, running |-> fb.ok,
          text |-> IF fb.ok THEN "none" ELSE "failed_to_start"]
    ELSE [raise |-> "ManagerError", creates |-> 1, fallback |-> FALSE, running |-> FALSE,
          text |-> "failed_to_start"]

\* start_novnc called whether or not the domain was started
CallsStartNovnc_always(raise, novncEnabled) == novncEnabled

\* vm.py 1001-1002 and 1006-1007: start calls start_novnc on the paths that
\* do not raise, when noVNC is enabled
CallsStartNovnc(raise, novncEnabled) == raise = "none" /\ novncEnabled

\* a missing socket tolerated in every runtime
WaitForLibvirtPasses_lenient(libvirtSock, virtlogdSock, rl) == TRUE

\* services.py 154-177: _wait_for_libvirt returns normally when both sockets
\* appeared, or, in a rootless runtime, after logging a warning
WaitForLibvirtPasses(libvirtSock, virtlogdSock, rl) ==
    (libvirtSock /\ virtlogdSock) \/ rl

\* the handlers of wait_until_stopped left installed on exit
RestoredHandlers_kept(prev, installed) == installed

\* vm.py 1204-1206: the finally clause reinstalls the saved handlers
RestoredHandlers(prev, installed) == prev

\* a libvirtError of destroy or undefine propagating out of cleanup
CleanupOutcome_strict(tpm, tpmRes, dom, isActiveRes, destroyRes, undefineRes) ==
    LET destroyCalled == dom # "none" /\ isActiveRes = "active"
        undefineCalled == dom # "none" /\ ~(destroyCalled /\ destroyRes # "ok")
        raised == \/ destroyCalled /\ destroyRes # "ok"
                  \/ undefineCalled /\ undefineRes # "ok"
    IN  [raised |-> raised,
         swept |-> ~raised,
         destroyed |-> destroyCalled /\ destroyRes = "ok",
         failed |-> (IF tpm /\ tpmRes # "ok" THEN {"swtpm"} ELSE {})
                    \cup (IF dom # "none" /\ isActiveRes = "libvirtError"
                          THEN {"isActive"} ELSE {})
                    \cup (IF destroyCalled /\ destroyRes # "ok" THEN {"destroy"} ELSE {})
                    \cup (IF undefineCalled /\ undefineRes # "ok"
                          THEN {"undefine"} ELSE {})]

\* vm.py 1208-1237: cleanup up to the orphan-QEMU sweep.  swtpm is
\* terminated (TimeoutExpired and OSError caught, then kill); isActive and
\* destroy share one try block, undefine has its own; every libvirtError is
\* caught; _kill_remaining_qemu is called after them
CleanupOutcome(tpm, tpmRes, dom, isActiveRes, destroyRes, undefineRes) ==
    LET destroyCalled == dom # "none" /\ isActiveRes = "active"
        undefineCalled == dom # "none"
    IN  [raised |-> FALSE,
         swept |-> TRUE,
         destroyed |-> destroyCalled /\ destroyRes = "ok",
         failed |-> (IF tpm /\ tpmRes # "ok" THEN {"swtpm"} ELSE {})
                    \cup (IF dom # "none" /\ isActiveRes = "libvirtError"
                          THEN {"isActive"} ELSE {})
                    \cup (IF destroyCalled /\ destroyRes # "ok" THEN {"destroy"} ELSE {})
                    \cup (IF undefineCalled /\ undefineRes # "ok"
                          THEN {"undefine"} ELSE {})]

\* the elements of a sequence, and the subsequence of those in a set
Range(seq) == {seq[i] : i \in 1..Len(seq)}

\* config.py 78-80, 218, 432: the default ports are distinct, no PORT_FWD
DefaultPorts ==
    [ssh |-> 1, vnc |-> 2, novnc |-> 3, redfish |-> 4, graphics |-> "none",
     redfish_enabled |-> FALSE, forwards |-> <<>>]

\* a dict assignment d[label] = port on a dict kept as the sequence of its
\* items in insertion order: an existing key keeps its place
RECURSIVE DictPut(_, _, _)
DictPut(items, label, port) ==
    IF items = <<>> THEN <<[label |-> label, port |-> port]>>
    ELSE IF Head(items).label = label
    THEN <<[label |-> label, port |-> port]>> \o Tail(items)
    ELSE <<Head(items)>> \o DictPut(Tail(items), label, port)

\* config.py 465-466: the PORT_FWD entries are added under the label
\* PORT_FWD(host:guest)
RECURSIVE PutForwards(_, _)
PutForwards(items, forwards) ==
    IF forwards = <<>> THEN items
    ELSE PutForwards(DictPut(items, <<"PORT_FWD", Head(forwards).host_port,
                                      Head(forwards).guest_port>>,
                             Head(forwards).host_port),
                     Tail(forwards))

\* config.py 71-75, 458-466: active_ports
ActivePorts(env) ==
    LET novnc == env.graphics = "novnc"
        vnc == env.graphics = "vnc" \/ novnc
        a == <<[label |-> <<"SSH_PORT", 0, 0>>, port |-> env.ssh]>>
        b == IF vnc THEN DictPut(a, <<"VNC_PORT", 0, 0>>, env.vnc) ELSE a
        c == IF novnc THEN DictPut(b, <<"NOVNC_PORT", 0, 0>>, env.novnc) ELSE b
        d == IF env.redfish_enabled THEN DictPut(c, <<"REDFISH_PORT", 0, 0>>, env.redfish) ELSE c
    IN  PutForwards(d, env.forwards)

\* config.py 468-474: the first port that was seen under an earlier label
PortConflict(items) ==
    \E i, j \in 1..Len(items) : i < j /\ items[i].port = items[j].port

\* config.py 436-474, 491-516: the port part of parse_env
ParsePorts(env) ==
    IF PortConflict(ActivePorts(env))
    THEN [state |-> "raised"]
    ELSE [state |-> "returned", ssh_port |-> env.ssh, vnc_port |-> env.vnc,
          novnc_port |-> env.novnc, redfish_port |-> env.redfish,
          vnc_on |-> env.graphics \in {"vnc", "novnc"},
          novnc_enabled |-> env.graphics = "novnc",
          redfish_enabled |-> env.redfish_enabled,
          port_forwards |-> env.forwards]

\* MAC addresses as NETWORK_MAC may spell them and as random_mac draws them
\* (utils.py 180-184: lower case)
Macs == {"52:54:00:aa:bb:01", "52:54:00:AA:BB:01", "52:54:00:aa:bb:02"}
NoMac == "none"

\* str.lower on the addresses above
Lower(mac) == IF mac = "52:54:00:AA:BB:01" THEN "52:54:00:aa:bb:01" ELSE mac

RandomMacs == {Lower(m) : m \in Macs}

\* a device without <boot order>
NoRank == 0

\* vm.py 677: boot_order_priority.get(dev) of the dict comprehension
\* {dev: idx + 1 for idx, dev in enumerate(boot_order)}: a device named
\* twice keeps its last position
BootOrderPriority(order, dev) ==
    IF \E i \in 1..Len(order) : order[i] = dev
    THEN CHOOSE i \in 1..Len(order) :
            order[i] = dev /\ \A j \in 1..Len(order) : order[j] = dev => j <= i
    ELSE NoRank

\* network.py 21-28: the parameters render_network_xml declares
RenderNetworkParams ==
    {"config", "ssh_port", "mac_address", "boot_order", "rom_file", "port_forwards"}

\* vm.py 872-880: the keywords _render_domain_xml passes with each NIC
NicCallKeywords ==
    {"ssh_port", "mac_address", "boot_order", "rom_file", "port_forwards", "ipv6_enabled"}

\* a Python call binds when every keyword is a declared parameter (the
\* function takes no **kwargs); otherwise it raises TypeError
CallBinds(keywords, params) == keywords \subseteq params

\* network.py 30: mac = (mac_address or config.mac_address or random_mac()).lower()
ResolvedMac(seed, configured, random) ==
    Lower(IF seed # NoMac THEN seed ELSE IF configured # NoMac THEN configured ELSE random)

\* vm.py 866-882: the NIC loop from index idx on; each NIC carries the
\* network rank when it boots, and its resolved MAC is kept in _network_macs
RECURSIVE RenderNics(_, _, _, _, _)
RenderNics(nics, idx, macs, order, random) ==
    IF idx > Len(nics) THEN [result |-> "xml", devices |-> <<>>, macs |-> macs]
    ELSE IF ~CallBinds(NicCallKeywords, RenderNetworkParams)
    THEN [result |-> "TypeError", devices |-> <<>>, macs |-> macs]
    ELSE LET mac == ResolvedMac(macs[idx], nics[idx].mac_address, random[idx])
             rest == RenderNics(nics, idx + 1, [macs EXCEPT ![idx] = mac], order, random)
             rank == IF nics[idx].boot THEN BootOrderPriority(order, "network") ELSE NoRank
         IN  [rest EXCEPT !.devices =
                  <<[dev |-> "interface", rank |-> rank, mac |-> mac]>> \o rest.devices]

\* vm.py 666-975: _render_domain_xml, as far as boot ranks and MACs go: the
\* working disk (797-800), the boot ISO (853-861), the NICs (863-882)
DomainXml(c, macs, random) ==
    LET disk == <<[dev |-> "disk", rank |-> BootOrderPriority(c.boot_order, "hd"),
                   mac |-> NoMac]>>
        cdrom == IF c.boot_iso
                 THEN <<[dev |-> "cdrom", rank |-> BootOrderPriority(c.boot_order, "cdrom"),
                         mac |-> NoMac]>>
                 ELSE <<>>
        nics == RenderNics(c.nics, 1, macs, c.boot_order, random)
    IN  IF nics.result = "xml"
        THEN [nics EXCEPT !.devices = disk \o cdrom \o nics.devices]
        ELSE nics

\* config.py 116-127, 236-289, 365-376: one user-mode NIC that does not boot
DefaultRender ==
    [boot_order |-> <<"hd">>, boot_iso |-> FALSE,
     nics |-> <<[boot |-> FALSE, mac_address |-> NoMac]>>]

\* check_disk_space was not called
NoCheck == [checked |-> FALSE, level |-> "none", raised |-> FALSE]

\* the check fails the preparation on a shortfall
CheckDiskSpace_raising(available, required) ==
    [checked |-> TRUE,
     level |-> IF available = 0 THEN "none"
               ELSE IF available < required THEN "ERROR"
               ELSE IF available < required * 2 THEN "WARN" ELSE "none",
     raised |-> available # 0 /\ available < required]

\* utils.py 493-505: check_disk_space says what it finds in the log and
\* returns; an available space of 0 (statvfs failed, utils.py 304-310) is
\* not judged
CheckDiskSpace(available, required) ==
    [checked |-> TRUE,
     level |-> IF available = 0 THEN "none"
               ELSE IF available < required THEN "ERROR"
               ELSE IF available < required * 2 THEN "WARN" ELSE "none",
     raised |-> FALSE]

\* vm.py 1117-1119: ci_timeout, ci_interval (seconds), ci_fail_limit
CI_TIMEOUT == 300
CI_INTERVAL == 5
CI_FAIL_LIMIT == 30

\* seconds a _guest_exec call may take (vm.py 1035-1080: up to a 10 s
\* timeout per virsh call and a 30 s poll), told apart as none or some
ExecSeconds == {0, 10}

\* what _guest_exec returns to the cloud-init loop: None, or the status text
ExecResults == {"none", "running", "done", "error", "disabled"}

\* the failure count is kept on a success
CiFailures_kept(failures, ret) == IF ret = "none" THEN failures + 1 ELSE failures

\* vm.py 1126-1133: ci_failures after a _guest_exec call
CiFailures(failures, ret) == IF ret = "none" THEN failures + 1 ELSE 0

\* services.py 154, 166: wait_for_path(path, timeout=15)
SOCKET_TIMEOUT == 15

\* services.py 146-153: the candidate paths in the order they are waited for
WaitedPaths == <<"libvirt1", "libvirt2", "virtlogd1", "virtlogd2">>

\* services.py 154-177: what follows a wait_for_path call: any() stops at
\* the first path found; when neither path of a socket shows up the wait
\* warns (rootless) or raises
AfterWaitForPath(step, found, rl) ==
    LET giveUp == IF rl THEN "warned" ELSE "failed"
    IN  CASE step = "libvirt1" -> IF found THEN "virtlogd1" ELSE "libvirt2"
          [] step = "libvirt2" -> IF found THEN "virtlogd1" ELSE giveUp
          [] step = "virtlogd1" -> IF found THEN "passed" ELSE "virtlogd2"
          [] step = "virtlogd2" -> IF found THEN "passed" ELSE giveUp

\* utils.py 255: delays = [5, 10, 20]
Delays == <<5, 10, 20>>

Min(a, b) == IF a < b THEN a ELSE b

\* retries without back-off
RetryDelay_constant(attempt) == Delays[1]

\* utils.py 263: the sleep after the failed attempt number attempt
RetryDelay(attempt) == Delays[Min(attempt - 1, Len(Delays) - 1) + 1]

\* the ways one download_file call can end: "ok" (whole body read and
\* renamed), "http_error" and "url_error" (urlopen failed), "tmp_error" (the
\* temporary file cannot be created), "read_error" (reading or writing a
\* chunk raised), "truncated" (the connection was closed early and read()
\* returned no more bytes), "replace_error" (the rename failed),
\* "interrupt" (KeyboardInterrupt while reading)
DownloadEnds == {"ok", "http_error", "url_error", "tmp_error", "read_error", "truncated",
                 "replace_error", "interrupt"}

\* utils.py 79-138: download_file.  urlopen errors become ManagerError
\* before anything is written; the body is written to a NamedTemporaryFile
\* in the destination directory until read() returns no bytes, then the
\* temporary file replaces the destination; an Exception in between removes
\* the temporary file and is raised again, a KeyboardInterrupt is not
\* caught
DownloadFile(end, content) ==
    CASE end = "ok" ->
           [raise |-> "none", dest |-> "complete", tmp |-> 0]
      [] end \in {"http_error", "url_error"} ->
           [raise |-> "ManagerError", dest |-> content, tmp |-> 0]
      [] end \in {"tmp_error", "read_error", "replace_error"} ->
           [raise |-> "Exception", dest |-> content, tmp |-> 0]
      [] end = "truncated" ->
           [raise |-> "none", dest |-> "partial", tmp |-> 0]
      [] end = "interrupt" ->
           [raise |-> "KeyboardInterrupt", dest |-> content, tmp |-> 1]

\* services.py 63-68: the socket paths _start_libvirt cleans, in order
SocketPaths ==
    <<"/run/libvirt/libvirt-sock", "/var/run/libvirt/libvirt-sock",
      "/run/libvirt/virtlogd-sock", "/var/run/libvirt/virtlogd-sock">>

\* what can lie at a path: nothing, something that is not a socket, a socket
\* a live libvirt accepts on, a socket nobody listens on, a socket whose
\* listener does not accept within the 0.2 s timeout
PathKinds == {"absent", "regular", "live", "stale", "hung"}

\* the outcomes of the probe connect on a path of each kind; any connect
\* can also fail with another OSError (EACCES for instance)
ProbeResults(kind) ==
    CASE kind = "live" -> {"connected", "OSError"}
      [] kind = "stale" -> {"ECONNREFUSED", "OSError"}
      [] kind = "hung" -> {"timeout", "OSError"}
      [] kind = "absent" -> {"ENOENT"}
      [] kind = "regular" -> {"ECONNREFUSED"}

UnlinkResults(kind) ==
    IF kind = "absent" THEN {"FileNotFoundError"} ELSE {"ok", "OSError"}

\* _cleanup_socket has not been called
NoSocket == [path |-> "none", found |-> "absent", probe |-> "none", unlink |-> FALSE,
             removed |-> FALSE]

\* every failed probe taken for a stale socket
CleanupSocketOutcome_anyError(found, probe, unlinkRes) ==
    IF found \in {"absent", "regular"}
    THEN [probe |-> "none", unlink |-> FALSE, removed |-> FALSE]
    ELSE IF probe = "connected"
    THEN [probe |-> probe, unlink |-> FALSE, removed |-> FALSE]
    ELSE [probe |-> probe, unlink |-> TRUE, removed |-> (unlinkRes = "ok")]

\* services.py 103-132: _cleanup_socket.  A path that does not exist or is
\* not a socket is left; the probe decides: socket.timeout, ECONNREFUSED and
\* ENOENT mark the socket stale, another OSError and a successful connect
\* leave it; a stale socket is unlinked, FileNotFoundError and OSError of
\* unlink are swallowed
CleanupSocketOutcome(found, probe, unlinkRes) ==
    IF found \in {"absent", "regular"}
    THEN [probe |-> "none", unlink |-> FALSE, removed |-> FALSE]
    ELSE IF probe \in {"timeout", "ECONNREFUSED", "ENOENT"}
    THEN [probe |-> probe, unlink |-> TRUE, removed |-> (unlinkRes = "ok")]
    ELSE [probe |-> probe, unlink |-> FALSE, removed |-> FALSE]

RECURSIVE Restrict(_, _)
Restrict(seq, set) ==
    IF seq = <<>> THEN <<>>
    ELSE (IF Head(seq) \in set THEN <<Head(seq)>> ELSE <<>>) \o Restrict(Tail(seq), set)

RECURSIVE Signals(_, _)
Signals(sig, seq) ==
    IF seq = <<>> THEN <<>> ELSE <<<<sig, Head(seq)>>>> \o Signals(sig, Tail(seq))

\* stop without the SIGKILL of the children that outlive the wait
StopOutcome_nokill(procs, running, stuck, shutdown) ==
    IF shutdown
    THEN [sent |-> <<>>, alive |-> running, shutdown |-> TRUE]
    ELSE LET termed == Restrict(procs, running)
         IN  [sent |-> Signals("SIGTERM", termed),
              alive |-> running \ (Range(procs) \ stuck),
              shutdown |-> TRUE]

\* services.py 349-360: ServiceManager.stop.  A call with _shutdown set
\* returns at once; otherwise every tracked child for which poll() is None
\* gets SIGTERM, in the order of processes, then each child is waited for
\* up to 5 s and gets SIGKILL when the wait times out
StopOutcome(procs, running, stuck, shutdown) ==
    IF shutdown
    THEN [sent |-> <<>>, alive |-> running, shutdown |-> TRUE]
    ELSE LET termed == Restrict(procs, running)
             killed == Restrict(termed, stuck)
         IN  [sent |-> Signals("SIGTERM", termed) \o Signals("SIGKILL", killed),
              alive |-> running \ Range(procs),
              shutdown |-> TRUE]

\* cli.py 417: the finally block writes the install marker
MarkInstalledDue(started, persist) == started /\ persist

\* _do_shutdown without its shutdown_requested guard
DoShutdownActs_unguarded(requested) == TRUE

\* domain.destroy() is called whatever domain.shutdown() did
DestroyAfterShutdown_always(res) == TRUE

\* vm.py 1165-1169: domain.destroy() is the except branch of
\* domain.shutdown()
DestroyAfterShutdown(res) == res = "libvirtError"

\* vm.py 1161-1163: _do_shutdown acts only on its first call
DoShutdownActs(requested) == ~requested

\* the window test written with <= instead of <
SigintConfirms_inclusive(first, t) ==
    first # NoTime /\ (t - first) <= DOUBLE_PRESS_WINDOW

\* vm.py 1183: a SIGINT confirms the shutdown
SigintConfirms(first, t) == first # NoTime /\ (t - first) < DOUBLE_PRESS_WINDOW

\* the window opened by the very first SIGINT only
FirstSigintTime_kept(confirm, first, t) ==
    IF confirm \/ first # NoTime THEN first ELSE t

\* vm.py 1186-1187: a SIGINT that does not confirm opens a window at its time
FirstSigintTime(confirm, first, t) == IF confirm THEN first ELSE t

\* ------------------------------------------------------- positions of main
PreTryPcs == {"parse_env", "start_libvirt", "wait_for_libvirt", "start_sushy",
              "vm_init", "connect"}
PreparePcs == {"prep_kvm", "prep_resolve", "prep_base", "prep_work", "prep_skip",
               "prep_firmware", "prep_tpm", "prep_cloudinit", "prep_define"}
TryPcs == PreparePcs \cup {"start", "guest_ready", "wait_install", "wait_loop",
                           "console_spawn", "console_wait", "console_wait2"}
FinallyPcs == {"finally", "cleanup", "close", "svc_stop"}

\* ------------------------------------------------------------ initial state
\* start() has not run
NoStart == [ran |-> FALSE, failed |-> FALSE, msg |-> {}, passt |-> FALSE,
            xmlDescOk |-> FALSE, defineRes |-> "ok", create2Ok |-> FALSE,
            text |-> "none", novnc |-> FALSE, running |-> FALSE]

\* cleanup() has not run
NoCleanup == [calls |-> 0, sweeps |-> 0, raised |-> FALSE, failed |-> {}]

\* artefacts prepare leaves outside the working disk: the downloaded boot
\* source, the cached base image, the firmware variable store, the seed ISO
Artefacts == {"boot_source", "base_image", "firmware_vars", "seed_iso"}

FileSizes == {1, REUSE_THRESHOLD, REUSE_THRESHOLD + 1}

\* boot_from is the kind of artefact BOOT_FROM resolves to, boot_url says
\* that BOOT_FROM is an http(s) URL, disk_size is DISK_SIZE in GiB (0 when
\* unset), firmware says that the boot mode needs a firmware variable store
MakeCfg(persist, forceIso, bootFrom, blank, novnc, redfish, cloudInit, tpm, order) ==
    [persist |-> persist, force_iso |-> forceIso, boot_from |-> bootFrom,
     blank_work_disk |-> blank, novnc_enabled |-> novnc, redfish_enabled |-> redfish,
     cloud_init_enabled |-> cloudInit, tpm_enabled |-> tpm, boot_order |-> order,
     boot_url |-> FALSE, disk_size |-> 0, firmware |-> FALSE, image_format |-> "qcow2"]

InitMain(start, inTry, started) ==
    /\ pc = start
    /\ outcome = "running"
    /\ retcode = NoCode
    /\ pending = "none"
    /\ err = "none"
    /\ entered_try = inTry
    /\ vm_started = started
    /\ teardown = <<>>
    /\ cleanup_log = NoCleanup

\* the container runtime, and how far the services have come
InitHost(rl, seen, attempted) ==
    /\ rootless = rl
    /\ socket_seen = seen
    /\ connect_attempted = attempted

\* the artefacts found on disk and the virtual size of the working disk
InitFiles(existing, size) ==
    /\ files = existing
    /\ vsize = size
    /\ vsize_before = Unseen
    /\ iso_downloads = 0
    /\ writes = {}
    /\ run = 1
    /\ steps = <<>>

\* ServiceManager.stop not called yet; no child outlives SIGTERM
InitStop(stuck) ==
    /\ stubborn = stuck
    /\ sent = <<>>
    /\ stop_calls = 0

\* the libvirt socket paths as _start_libvirt finds them
InitSockets(found) ==
    /\ sockets = found
    /\ sock_idx = 1
    /\ sock_last = NoSocket

\* download_file_with_retry is entered with its retries argument; content
\* is what lies at the destination path
InitDownload(retries, content) ==
    /\ dl = [retries |-> retries, attempt |-> 0, waits |-> <<>>, result |-> "running",
             last |-> "none"]
    /\ dest = content
    /\ tmp_left = 0

\* parse_env has not run on the port settings
InitPorts(env) ==
    /\ port_env = env
    /\ port_cfg = [state |-> "none"]

\* config.py 84-94: BASE_IMAGE is unset (or empty), the word "blank", or a
\* path; BLANK_DISK is unset, falsy or truthy
BaseImageEnvs == {"unset", "blank", "path"}
BlankDiskEnvs == {"unset", "false", "true"}

\* config.py 180, 395-401: IPXE_ROM_PATH is unset or names a file, a
\* directory or nothing; the ROM table has no entry for the architecture and
\* NIC model, or an entry that names a file or nothing
RomOverrides == {"unset", "file", "dir", "missing"}
DefaultRoms == {"none", "file", "missing"}

\* config.py 116-127: BOOT_ORDER (default "hd"; raw holds the devices
\* named); a requested ISO puts cdrom in front of an order that lacks it
ParseBootOrder(raw, iso) ==
    LET order == IF raw = <<>> THEN <<"hd">> ELSE raw
    IN  IF iso /\ ~InSeq("cdrom", order) THEN <<"cdrom">> \o order ELSE order

\* the blank disk decided by BLANK_DISK and BASE_IMAGE=blank alone
BlankWorkDisk_explicitOnly(iso, base, blankEnv) ==
    blankEnv = "true" \/ base = "blank"

\* config.py 90-94 and 128-130: blank_work_disk
BlankWorkDisk(iso, base, blankEnv) ==
    IF iso /\ base # "path" /\ blankEnv = "unset" THEN TRUE
    ELSE blankEnv = "true" \/ base = "blank"

\* iPXE adding network at the end of an order that lacks it
IpxeBootOrder_appended(order) ==
    IF InSeq("network", order) THEN order ELSE order \o <<"network">>

\* config.py 390-393: iPXE moves (or puts) network to the front
IpxeBootOrder(order) == <<"network">> \o Without(order, "network")

\* config.py 395-411: the ROM of an iPXE boot, as the kind of path it names
\* ("none": no ROM is known)
IpxeRom(ipxe, override, default) ==
    IF ~ipxe THEN "none" ELSE IF override # "unset" THEN override ELSE default

\* config.py 84-130, 286-288 and 388-411: the boot-related part of parse_env;
\* netBoot is NETWORK_BOOT of the primary NIC
ParseBoot(iso, base, blankEnv, raw, netBoot, ipxe, override, default) ==
    LET order == ParseBootOrder(raw, iso)
        rom == IpxeRom(ipxe, override, default)
    IN  [state |-> IF ipxe /\ rom \in {"none", "missing"} THEN "ManagerError"
                   ELSE "returned",
         iso |-> iso, base |-> base, blank_env |-> blankEnv, raw |-> raw,
         ipxe_enabled |-> ipxe,
         boot_order |-> IF ipxe THEN IpxeBootOrder(order) ELSE order,
         blank_work_disk |-> BlankWorkDisk(iso, base, blankEnv),
         nic_boot |-> ipxe \/ netBoot,
         ipxe_rom |-> rom]

\* parse_env has not been called
InitParseBoot ==
    pe = [state |-> "idle", iso |-> FALSE, base |-> "unset", blank_env |-> "unset",
          raw |-> <<>>, ipxe_enabled |-> FALSE, boot_order |-> <<>>,
          blank_work_disk |-> FALSE, nic_boot |-> FALSE, ipxe_rom |-> "none"]

\* _define_domain has not been called
InitDefine == define_log = [ran |-> FALSE, exists |-> FALSE, define_calls |-> 0]

\* _wait_for_libvirt has not been called
InitSocketWait == sw = [step |-> "idle", elapsed |-> 0]

\* wait_for_guest_ready has not been called
InitGuestWait ==
    ci = [state |-> "idle", failures |-> 0, calls |-> 0, last_ok |-> 0, elapsed |-> 0]

\* check_disk_space has not run; the VM directory has free GiB available
InitSpace(free) ==
    /\ free_space = free
    /\ space_log = NoCheck

\* _render_domain_xml has not been called: _network_macs is empty (vm.py 97)
InitRender(c) ==
    /\ render_cfg = c
    /\ network_macs = [i \in 1..Len(c.nics) |-> NoMac]
    /\ rendered = <<>>

\* the operations studied on their own are idle
InitUnits ==
    /\ InitStop({})
    /\ InitSockets([p \in Range(SocketPaths) |-> "absent"])
    /\ InitDownload(DEFAULT_RETRIES, "absent")
    /\ InitPorts(DefaultPorts)
    /\ InitRender(DefaultRender)
    /\ InitSpace(2 * MaxDiskSize)
    /\ InitGuestWait
    /\ InitSocketWait
    /\ InitDefine
    /\ InitParseBoot

InitServices(children) ==
    /\ processes = children
    /\ alive = {children[i] : i \in 1..Len(children)}
    /\ svc_shutdown = FALSE
    /\ novnc_started = FALSE

InitLibvirt(connection, dom, active, passt, creates, startInfo) ==
    /\ conn = connection
    /\ domain = dom
    /\ domain_active = active
    /\ xml_passt = passt
    /\ create_calls = creates
    /\ redefines = 0
    /\ start_in = startInfo

\* swtpm: a swtpm child started by _start_tpm is running
InitDiskWith(c, disk, installed, swtpm) ==
    /\ cfg = c
    /\ order_before = c.boot_order
    /\ boot_iso = FALSE
    /\ disk_reused = FALSE
    /\ work_disk = disk
    /\ marker = installed
    /\ marker_written = FALSE
    /\ skip = [decided |-> FALSE, applied |-> FALSE, iso |-> FALSE]
    /\ disk_before = Unseen
    /\ tpm_process = swtpm

InitDisk(c, disk, installed) == InitDiskWith(c, disk, installed, FALSE)

\* h: the handlers in place, "default" (Python's default_int_handler and
\* SIG_DFL) or "ignored" (the process inherited SIG_IGN from its parent)
InitSignalsWith(h) ==
    /\ handlers = h
    /\ shutdown_requested = FALSE
    /\ first_sigint_time = NoTime
    /\ now = 0
    /\ shutdown_calls = 0
    /\ destroy_calls = 0
    /\ shutdown_res = "none"
    /\ late_polls = FALSE
    /\ siglog = <<>>
    /\ shutdown_at = 0
    /\ prev_handlers = "none"
    /\ console_state = "none"

InitSignals == InitSignalsWith("default")

\* a run of main from its entry in a rootful container; the VM directory
\* either is fresh or holds a disk and marker left by a previous run
Init ==
    \E persist \in BOOLEAN, iso \in BOOLEAN, novnc \in BOOLEAN, redfish \in BOOLEAN,
       cloudInit \in BOOLEAN, console \in BOOLEAN, installed \in BOOLEAN :
        /\ InitUnits
        /\ InitMain("parse_env", FALSE, FALSE)
        /\ InitHost(FALSE, FALSE, FALSE)
        /\ InitFiles(IF installed THEN Artefacts ELSE {}, IF installed THEN 1 ELSE 0)
        /\ console_requested = console
        /\ InitServices(<<>>)
        /\ InitLibvirt("none", "none", FALSE, FALSE, 0, NoStart)
        /\ InitDisk(MakeCfg(persist, FALSE, IF iso THEN "iso" ELSE "none", iso, novnc,
                            redfish, cloudInit, FALSE,
                            IF iso THEN <<"cdrom", "hd">> ELSE <<"hd">>),
                    IF installed THEN REUSE_THRESHOLD + 1 ELSE NoDisk, installed)
        /\ InitSignals

\* main at the call of prepare (cli.py 390): services are up, the
\* connection is open; every boot order parse_env can return, any state of
\* the VM directory that VMManager.__init__ can leave
InitPrepare ==
    \E persist \in BOOLEAN, forceIso \in BOOLEAN, bootFrom \in {"none", "iso", "disk"},
       blank \in BOOLEAN, tpm \in BOOLEAN,
       disk \in {NoDisk} \cup FileSizes, installed \in BOOLEAN :
       \E order \in BootOrders(bootFrom = "iso", MaxBootLen) :
        /\ ~persist => (disk = NoDisk /\ ~installed)
        /\ InitUnits
        /\ InitMain("prep_kvm", TRUE, FALSE)
        /\ InitHost(FALSE, TRUE, TRUE)
        /\ InitFiles(IF disk = NoDisk THEN {} ELSE Artefacts,
                     IF disk = NoDisk THEN 0 ELSE 1)
        /\ console_requested = FALSE
        /\ InitServices(<<"virtlogd", "libvirtd">>)
        /\ InitLibvirt("open", "none", FALSE, FALSE, 0, NoStart)
        /\ InitDisk(MakeCfg(persist, forceIso, bootFrom, blank, FALSE, FALSE, FALSE,
                            tpm, order),
                    disk, installed)
        /\ InitSignals

\* main at the call of wait_until_stopped (cli.py 400): the domain was
\* started by one successful create and may have stopped since
InitWait ==
    \E persist \in BOOLEAN, active \in BOOLEAN, passt \in BOOLEAN,
       h \in {"default", "ignored"} :
        /\ InitUnits
        /\ InitMain("wait_install", TRUE, TRUE)
        /\ InitHost(FALSE, TRUE, TRUE)
        /\ InitFiles(Artefacts, 1)
        /\ console_requested = FALSE
        /\ InitServices(<<"virtlogd", "libvirtd">>)
        /\ InitLibvirt("open", "defined", active, passt, 1,
                       [NoStart EXCEPT !.ran = TRUE, !.passt = passt, !.running = TRUE])
        /\ InitDisk(MakeCfg(persist, FALSE, "none", FALSE, FALSE, FALSE, FALSE, FALSE,
                            <<"hd">>),
                    REUSE_THRESHOLD + 1, FALSE)
        /\ InitSignalsWith(h)

\* --------------------------------------------------------- control helpers
Goto(p) ==
    /\ pc' = p
    /\ UNCHANGED <<outcome, retcode, pending, err, entered_try, vm_started, teardown>>

NoteErr(kind) == IF err = "none" /\ kind # "KeyboardInterrupt" THEN kind ELSE err

\* an exception leaves main before the try block was entered (cli.py 371-388)
RaiseBeforeTry(kind) ==
    /\ pc' = "done"
    /\ outcome' = "uncaught"
    /\ pending' = kind
    /\ err' = NoteErr(kind)
    /\ UNCHANGED <<retcode, entered_try, vm_started, teardown>>

\* an exception is raised inside the try block (cli.py 389-415): ManagerError
\* and Exception are caught and turned into return 1, KeyboardInterrupt is
\* not caught; the finally block runs in both cases
RaiseInTry(kind) ==
    /\ pc' = "finally"
    /\ retcode' = IF kind = "KeyboardInterrupt" THEN retcode ELSE 1
    /\ pending' = IF kind = "KeyboardInterrupt" THEN kind ELSE "none"
    /\ err' = NoteErr(kind)
    /\ UNCHANGED <<outcome, entered_try, vm_started, teardown>>

\* an exception is raised inside the finally block (cli.py 416-421): it
\* replaces any return value and leaves main
RaiseInFinally(kind) ==
    /\ pc' = "done"
    /\ outcome' = "uncaught"
    /\ pending' = kind
    /\ err' = NoteErr(kind)
    /\ UNCHANGED <<retcode, entered_try, vm_started, teardown>>


\* -------------------------------------------------- main before the try
\* cli.py 280-369: parse_env; a ManagerError is logged and main returns 1,
\* any other exception parse_env raises (config.py 49 and 142: YAMLError of
\* the distribution file, UnicodeDecodeError of the user-data file) is not
\* caught; --show-config, --show-xml and --dry-run print and return 0
ParseEnv ==
    /\ pc = "parse_env" /\ outcome = "running"
    /\ \E res \in {"run", "info", "ManagerError", "Exception"} :
          CASE res = "run" -> Goto("start_libvirt")
            [] res = "Exception" -> RaiseBeforeTry("Exception")
            [] res = "info" ->
                 /\ pc' = "done" /\ outcome' = "returned" /\ retcode' = 0
                 /\ UNCHANGED <<pending, err, entered_try, vm_started, teardown>>
            [] res = "ManagerError" ->
                 /\ pc' = "done" /\ outcome' = "returned" /\ retcode' = 1
                 /\ err' = "ManagerError"
                 /\ UNCHANGED <<pending, entered_try, vm_started, teardown>>
    /\ UNCHANGED <<unitVars, cfgVars, hostVars, imgVars, cleanup_log, svcVars, virtVars, prepVars, waitVars, console_state>>

\* services.py 60-101 and 134-143: _start_libvirt spawns virtlogd and
\* libvirtd, appends both to processes, then checks that each still runs
StartLibvirt ==
    /\ pc = "start_libvirt" /\ outcome = "running"
    /\ \E exited \in SUBSET {"virtlogd", "libvirtd"} :
          /\ processes' = processes \o <<"virtlogd", "libvirtd">>
          /\ alive' = (alive \cup {"virtlogd", "libvirtd"}) \ exited
          /\ IF exited = {} THEN Goto("wait_for_libvirt")
             ELSE RaiseBeforeTry("ManagerError")
    /\ UNCHANGED <<svc_shutdown, novnc_started>>
    /\ UNCHANGED <<unitVars, cfgVars, hostVars, imgVars, cleanup_log, virtVars, prepVars, waitVars, console_state>>

\* services.py 145-177: _wait_for_libvirt; a missing socket is a warning in
\* rootless mode and a ManagerError otherwise
WaitForLibvirt ==
    /\ pc = "wait_for_libvirt" /\ outcome = "running"
    /\ \E libvirtSock \in BOOLEAN, virtlogdSock \in BOOLEAN :
          /\ socket_seen' = libvirtSock
          /\ IF WaitForLibvirtPasses(libvirtSock, virtlogdSock, rootless)
             THEN Goto(IF cfg.redfish_enabled THEN "start_sushy" ELSE "vm_init")
             ELSE RaiseBeforeTry("ManagerError")
    /\ UNCHANGED <<rootless, connect_attempted>>
    /\ UNCHANGED <<unitVars, cfgVars, imgVars, cleanup_log, svcVars, virtVars, prepVars, waitVars, console_state>>

\* services.py 54-56, 223-243, 245-295: storage pool (errors swallowed),
\* certificates (openssl may fail), then the sushy-emulator child
StartSushy ==
    /\ pc = "start_sushy" /\ outcome = "running"
    /\ \E res \in {"ok", "Exception"} :
          IF res = "ok"
          THEN /\ processes' = Append(processes, "sushy")
               /\ alive' = alive \cup {"sushy"}
               /\ Goto("vm_init")
          ELSE /\ UNCHANGED <<processes, alive>>
               /\ RaiseBeforeTry("Exception")
    /\ UNCHANGED <<svc_shutdown, novnc_started>>
    /\ UNCHANGED <<unitVars, cfgVars, hostVars, imgVars, cleanup_log, virtVars, prepVars, waitVars, console_state>>

\* vm.py 72-101: VMManager.__init__; without persistence a VM directory
\* left by an earlier run is removed
VMManagerInit ==
    /\ pc = "vm_init" /\ outcome = "running"
    /\ work_disk' = IF cfg.persist THEN work_disk ELSE NoDisk
    /\ marker' = IF cfg.persist THEN marker ELSE FALSE
    /\ files' = IF cfg.persist THEN files ELSE files \ {"seed_iso"}
    /\ vsize' = IF cfg.persist THEN vsize ELSE 0
    /\ Goto("connect")
    /\ UNCHANGED <<boot_iso, disk_reused, marker_written, skip, disk_before,
                   order_before, tpm_process>>
    /\ UNCHANGED <<vsize_before, iso_downloads, writes, run, steps>>
    /\ UNCHANGED <<unitVars, cfgVars, hostVars, cleanup_log, svcVars, virtVars, waitVars, console_state>>

\* vm.py 103-106 and cli.py 387-389: connect; libvirt.open raises
\* libvirtError or returns None (ManagerError); on success main enters try
Connect ==
    /\ pc = "connect" /\ outcome = "running"
    /\ \E res \in {"ok", "ManagerError", "Exception"} :
          IF res = "ok"
          THEN /\ conn' = "open"
               /\ pc' = "prep_kvm"
               /\ entered_try' = TRUE
               /\ vm_started' = FALSE
               /\ UNCHANGED <<outcome, retcode, pending, err, teardown>>
          ELSE /\ UNCHANGED conn
               /\ RaiseBeforeTry(res)
    /\ connect_attempted' = TRUE
    /\ UNCHANGED <<rootless, socket_seen>>
    /\ UNCHANGED <<domain, domain_active, xml_passt, create_calls, redefines, start_in>>
    /\ UNCHANGED <<unitVars, cfgVars, imgVars, cleanup_log, svcVars, prepVars, waitVars, console_state>>


\* ------------------------------------------------------------- prepare
\* a prepare step starts
BeginStep(name) == steps' = Append(steps, name)

\* ensure_base_image run for a blank disk as well
AfterResolve_always(blank) == "prep_base"

\* vm.py 138-141: _ensure_base_image is not called for a blank work disk
AfterResolve(blank) == IF blank THEN "prep_work" ELSE "prep_base"

\* qemu-img resize run whatever the current virtual size is
ResizeTarget_always(requested, current) == requested

\* vm.py 298-300 and 342-344: qemu-img resize is run only to grow the disk
ResizeTarget(requested, current) ==
    IF requested > current THEN requested ELSE current

\* vm.py 114-135: KVM gating; REQUIRE_KVM without /dev/kvm, or CPU_MODEL=host
\* on an architecture without a TCG fallback, is a ManagerError
PrepKvm ==
    /\ pc = "prep_kvm" /\ outcome = "running"
    /\ BeginStep("kvm_gating")
    /\ \E kvm \in BOOLEAN, requireKvm \in BOOLEAN, hostCpu \in BOOLEAN,
          tcgFallback \in BOOLEAN :
          IF ~kvm /\ (requireKvm \/ (hostCpu /\ ~tcgFallback))
          THEN RaiseInTry("ManagerError")
          ELSE Goto("prep_resolve")
    /\ UNCHANGED <<files, vsize, vsize_before, iso_downloads, writes, run>>
    /\ UNCHANGED <<unitVars, cfgVars, hostVars, cleanup_log, svcVars, virtVars, prepVars, waitVars,
                   console_state>>

\* vm.py 163-206: _resolve_boot_from; a URL is downloaded into the boot
\* cache unless a non-empty cached file exists; a missing path or a failed
\* download or pull is a ManagerError; an ISO becomes boot_iso, anything
\* else is post-processed into the base image
ResolveBootFrom ==
    /\ pc = "prep_resolve" /\ outcome = "running"
    /\ BeginStep("resolve_boot_from")
    /\ IF cfg.boot_from = "none"
       THEN /\ Goto(AfterResolve(cfg.blank_work_disk))
            /\ UNCHANGED <<boot_iso, files, iso_downloads, writes, cfg>>
       ELSE LET download == cfg.boot_url /\ "boot_source" \notin files
                placed == (IF download THEN {"boot_source"} ELSE {})
                          \cup (IF cfg.boot_from = "disk" /\ "base_image" \notin files
                                THEN {"base_image"} ELSE {})
            IN  /\ iso_downloads' = iso_downloads + (IF download THEN 1 ELSE 0)
                /\ \E resolved \in BOOLEAN :
                      /\ (cfg.boot_url /\ ~download /\ cfg.boot_from = "iso") => resolved
                      /\ IF resolved
                         THEN /\ boot_iso' = (cfg.boot_from = "iso")
                              /\ files' = files \cup placed
                              /\ writes' = writes \cup placed
                              /\ IF cfg.boot_from = "disk"
                                 THEN \E detected \in DetectedFormats :
                                         cfg' = PostProcessCfg(cfg, detected)
                                 ELSE UNCHANGED cfg
                              /\ Goto(AfterResolve(cfg.blank_work_disk))
                         ELSE /\ UNCHANGED <<boot_iso, files, writes, cfg>>
                              /\ RaiseInTry("ManagerError")
    /\ UNCHANGED <<vsize, vsize_before, run>>
    /\ UNCHANGED <<disk_reused, work_disk, marker, marker_written, skip, disk_before,
                   order_before, tpm_process>>
    /\ UNCHANGED <<unitVars, console_requested, hostVars, cleanup_log, svcVars, virtVars,
                   waitVars, console_state>>

\* vm.py 138-139 and 208-231: _ensure_base_image (not called for a blank
\* disk); a cached image larger than 100 MiB is used, else it is downloaded
\* and post-processed
EnsureBaseImage ==
    /\ pc = "prep_base" /\ outcome = "running"
    /\ BeginStep("ensure_base_image")
    /\ IF "base_image" \in files
       THEN /\ Goto("prep_work")
            /\ UNCHANGED <<files, writes, cfg>>
       ELSE \E ok \in BOOLEAN :
               IF ok
               THEN /\ files' = files \cup {"base_image"}
                    /\ writes' = writes \cup {"base_image"}
                    /\ \E detected \in DetectedFormats :
                          cfg' = PostProcessCfg(cfg, detected)
                    /\ Goto("prep_work")
               ELSE /\ UNCHANGED <<files, writes, cfg>>
                    /\ RaiseInTry("ManagerError")
    /\ UNCHANGED <<vsize, vsize_before, iso_downloads, run>>
    /\ UNCHANGED <<unitVars, console_requested, hostVars, cleanup_log, svcVars, virtVars, prepVars, waitVars,
                   console_state>>

\* vm.py 288-301: the reused disk is grown when DISK_SIZE exceeds the
\* virtual size qemu-img info reports; res is what qemu-img resize answers
\* ("ResizeError": it exits non-zero and run() raises CalledProcessError)
ReuseWorkImage(infoOk, res) ==
    LET target == IF cfg.disk_size # 0 /\ infoOk
                  THEN ResizeTarget(cfg.disk_size, vsize) ELSE vsize
    IN  /\ UNCHANGED work_disk
        /\ res \in {"ok", "ResizeError"}
        /\ (target = vsize) => res = "ok"
        /\ IF res = "ok"
           THEN /\ vsize' = target
                /\ writes' = writes \cup (IF target # vsize THEN {"work_disk_resized"}
                                          ELSE {})
                /\ Goto("prep_skip")
           ELSE /\ UNCHANGED <<vsize, writes>>
                /\ RaiseInTry("Exception")

\* vm.py 302-347: a disk that is not reused is unlinked (persist) and
\* created: qemu-img create for a blank disk, else a copy of the base image
\* (virtual size baseSize, file size copySize) which is grown to DISK_SIZE.
\* res: "ManagerError" the base image is an ISO, "Exception" qemu-img create
\* or the copy failed, "ResizeError" qemu-img resize failed
CreateWorkImage(infoOk, res, baseSize, copySize) ==
    LET unlinked == IF cfg.persist /\ work_disk # NoDisk
                    THEN {"work_disk_removed"} ELSE {}
        current == IF infoOk THEN baseSize ELSE 0
        target == IF cfg.disk_size # 0
                  THEN ResizeTarget(cfg.disk_size, current) ELSE current
    IN  /\ res = "ManagerError" => ~cfg.blank_work_disk
        /\ res = "ResizeError" => (~cfg.blank_work_disk /\ target # current)
        /\ IF res \in {"ManagerError", "Exception"}
           THEN /\ work_disk' = NoDisk
                /\ vsize' = 0
                /\ writes' = writes \cup unlinked
                /\ RaiseInTry(res)
           ELSE IF cfg.blank_work_disk
           THEN /\ work_disk' = 1
                /\ vsize' = cfg.disk_size
                /\ writes' = writes \cup unlinked \cup {"work_disk_created"}
                /\ Goto("prep_skip")
           ELSE /\ work_disk' = copySize
                /\ writes' = writes \cup unlinked \cup {"work_disk_created"}
                /\ IF res = "ResizeError"
                   THEN /\ vsize' = baseSize
                        /\ RaiseInTry("Exception")
                   ELSE /\ vsize' = IF target # current THEN target ELSE baseSize
                        /\ Goto("prep_skip")

\* virtual sizes of the base image told apart: without DISK_SIZE the code
\* never looks at the virtual size
BaseSizes(requested) == IF requested = 0 THEN {1} ELSE 1..MaxDiskSize

\* vm.py 274-352: _prepare_work_image
PrepareWorkImage ==
    /\ pc = "prep_work" /\ outcome = "running"
    /\ BeginStep("ensure_work_image")
    /\ disk_before' = work_disk
    /\ vsize_before' = vsize
    /\ LET check == IF cfg.disk_size # 0
                    THEN CheckDiskSpace(free_space, cfg.disk_size) ELSE NoCheck
       IN  /\ space_log' = check
           /\ IF check.raised
              THEN /\ UNCHANGED <<disk_reused, work_disk, vsize, writes>>
                   /\ RaiseInTry("ManagerError")
              ELSE /\ disk_reused' = DiskReused(cfg.persist, work_disk)
                   /\ \E infoOk \in BOOLEAN,
                         res \in {"ok", "ManagerError", "Exception", "ResizeError"},
                         baseSize \in BaseSizes(cfg.disk_size), copySize \in FileSizes :
                         IF DiskReused(cfg.persist, work_disk)
                         THEN /\ baseSize = 1 /\ copySize = 1
                              /\ cfg.disk_size = 0 => infoOk
                              /\ ReuseWorkImage(infoOk, res)
                         ELSE /\ cfg.blank_work_disk =>
                                    (baseSize = 1 /\ copySize = 1 /\ infoOk)
                              /\ cfg.disk_size = 0 => infoOk
                              /\ cfg.boot_from # "disk" => copySize = REUSE_THRESHOLD + 1
                              /\ CreateWorkImage(infoOk, res, baseSize, copySize)
    /\ UNCHANGED <<files, iso_downloads, run>>
    /\ UNCHANGED <<boot_iso, marker, marker_written, skip, order_before, tpm_process>>
    /\ UNCHANGED <<stopVars, sockVars, dlVars, portVars, renderVars, free_space, ciVars>>
    /\ UNCHANGED <<peVars>>
    /\ UNCHANGED <<defVars>>
    /\ UNCHANGED <<swVars>>
    /\ UNCHANGED <<cfgVars, hostVars, cleanup_log, svcVars, virtVars, waitVars,
                   console_state>>

\* vm.py 142-152: the smart install-skip, then the check that a boot ISO
\* still to be used exists
SmartSkip ==
    /\ pc = "prep_skip" /\ outcome = "running"
    /\ BeginStep("smart_install_skip")
    /\ LET apply == SmartSkipApplies(boot_iso, disk_reused, marker, cfg.force_iso)
       IN  /\ skip' = [decided |-> TRUE, applied |-> apply, iso |-> boot_iso]
           /\ boot_iso' = IF apply THEN FALSE ELSE boot_iso
           /\ cfg' = SmartSkipCfg(cfg, apply)
           /\ \E isoExists \in BOOLEAN :
                 IF boot_iso' /\ ~isoExists
                 THEN RaiseInTry("ManagerError")
                 ELSE Goto("prep_firmware")
    /\ UNCHANGED <<files, vsize, vsize_before, iso_downloads, writes, run>>
    /\ UNCHANGED <<disk_reused, work_disk, marker, marker_written, disk_before,
                   order_before, tpm_process>>
    /\ UNCHANGED <<unitVars, console_requested, hostVars, cleanup_log, svcVars, virtVars, waitVars,
                   console_state>>

\* vm.py 154-156, 397-478: _extract_qemu_binary and _prepare_firmware; the
\* firmware variable store is copied from its template unless it exists
PrepareFirmware ==
    /\ pc = "prep_firmware" /\ outcome = "running"
    /\ BeginStep("prepare_firmware")
    /\ \E res \in {"ok", "ManagerError", "Exception"} :
          IF res = "ok"
          THEN LET copied == IF cfg.firmware /\ "firmware_vars" \notin files
                             THEN {"firmware_vars"} ELSE {}
               IN  /\ files' = files \cup copied
                   /\ writes' = writes \cup copied
                   /\ Goto("prep_tpm")
          ELSE /\ UNCHANGED <<files, writes>>
               /\ RaiseInTry(res)
    /\ UNCHANGED <<vsize, vsize_before, iso_downloads, run>>
    /\ UNCHANGED <<unitVars, cfgVars, hostVars, cleanup_log, svcVars, virtVars, prepVars, waitVars,
                   console_state>>

\* vm.py 480-508: _start_tpm
StartTpm ==
    /\ pc = "prep_tpm" /\ outcome = "running"
    /\ BeginStep("start_tpm")
    /\ IF ~cfg.tpm_enabled
       THEN /\ Goto("prep_cloudinit")
            /\ UNCHANGED tpm_process
       ELSE \E ok \in BOOLEAN :
               IF ok
               THEN /\ tpm_process' = TRUE
                    /\ Goto("prep_cloudinit")
               ELSE /\ UNCHANGED tpm_process
                    /\ RaiseInTry("ManagerError")
    /\ UNCHANGED <<files, vsize, vsize_before, iso_downloads, writes, run>>
    /\ UNCHANGED <<boot_iso, disk_reused, work_disk, marker, marker_written, skip,
                   disk_before, order_before>>
    /\ UNCHANGED <<unitVars, cfgVars, hostVars, cleanup_log, svcVars, virtVars, waitVars,
                   console_state>>

\* vm.py 510-639: _generate_cloud_init; with cloud-init enabled genisoimage
\* writes the seed ISO on every call (it may fail)
GenerateCloudInit ==
    /\ pc = "prep_cloudinit" /\ outcome = "running"
    /\ BeginStep("generate_cloud_init")
    /\ \E ok \in BOOLEAN :
          /\ ~cfg.cloud_init_enabled => ok
          /\ IF ok
             THEN /\ files' = files \cup (IF cfg.cloud_init_enabled THEN {"seed_iso"}
                                          ELSE {})
                  /\ writes' = writes \cup (IF cfg.cloud_init_enabled THEN {"seed_iso"}
                                            ELSE {})
                  /\ Goto("prep_define")
             ELSE /\ UNCHANGED <<files, writes>>
                  /\ RaiseInTry("Exception")
    /\ UNCHANGED <<vsize, vsize_before, iso_downloads, run>>
    /\ UNCHANGED <<unitVars, cfgVars, hostVars, cleanup_log, svcVars, virtVars, prepVars, waitVars,
                   console_state>>

\* vm.py 641-662: _define_domain; an existing domain is adopted as it is
\* (it may be running; the second lookupByName raises when the domain went
\* away meanwhile), otherwise the XML is rendered (an exception when a
\* NIC's render_network_xml call does not bind) and defineXML defines it,
\* returns None (ManagerError) or raises libvirtError
DefineDomain ==
    /\ pc = "prep_define" /\ outcome = "running"
    /\ BeginStep("define_domain")
    /\ \E res \in {"adopt", "define", "ManagerError", "Exception"},
          cause \in {"none", "lookup", "render", "defineXML"},
          passt \in BOOLEAN, running \in BOOLEAN :
          LET binds == CallBinds(NicCallKeywords, RenderNetworkParams)
              exists == res = "adopt" \/ cause = "lookup"
          IN  /\ res \in {"define", "ManagerError"} => binds
              /\ (res = "Exception") <=> (cause # "none")
              /\ cause = "render" => ~binds
              /\ cause = "defineXML" => binds
              /\ define_log' = [ran |-> TRUE, exists |-> exists,
                                define_calls |-> IF ~exists /\ binds THEN 1 ELSE 0]
              /\ IF res \in {"adopt", "define"}
                 THEN /\ domain' = "defined"
                      /\ xml_passt' = passt
                      /\ domain_active' = (res = "adopt" /\ running)
                      /\ Goto("start")
                 ELSE /\ ~passt /\ ~running
                      /\ UNCHANGED <<domain, xml_passt, domain_active>>
                      /\ RaiseInTry(res)
    /\ UNCHANGED <<files, vsize, vsize_before, iso_downloads, writes, run>>
    /\ UNCHANGED <<conn, create_calls, redefines, start_in>>
    /\ UNCHANGED <<stopVars, sockVars, dlVars, portVars, renderVars, spaceVars, ciVars,
                   swVars, peVars>>
    /\ UNCHANGED <<cfgVars, hostVars, cleanup_log, svcVars, prepVars, waitVars,
                   console_state>>

\* prepare is run again by a new process with the same configuration on the
\* files the first run left (vm.py 72-101): the attributes of the new
\* VMManager are fresh, parse_env returns the same boot order, and without
\* persistence the VM directory is removed
PrepareAgain ==
    /\ pc = "start" /\ outcome = "running" /\ run = 1
    /\ run' = 2
    /\ pc' = "prep_kvm"
    /\ steps' = <<>>
    /\ writes' = {}
    /\ iso_downloads' = 0
    /\ vsize_before' = Unseen
    /\ cfg' = [cfg EXCEPT !.boot_order = order_before, !.image_format = "qcow2"]
    /\ boot_iso' = FALSE
    /\ disk_reused' = FALSE
    /\ skip' = [decided |-> FALSE, applied |-> FALSE, iso |-> FALSE]
    /\ disk_before' = Unseen
    /\ tpm_process' = FALSE
    /\ work_disk' = IF cfg.persist THEN work_disk ELSE NoDisk
    /\ vsize' = IF cfg.persist THEN vsize ELSE 0
    /\ files' = IF cfg.persist THEN files ELSE files \ {"seed_iso"}
    /\ domain' = "none"
    /\ domain_active' = FALSE
    /\ xml_passt' = FALSE
    /\ UNCHANGED <<marker, marker_written, order_before>>
    /\ UNCHANGED <<conn, create_calls, redefines, start_in>>
    /\ UNCHANGED <<outcome, retcode, pending, err, entered_try, vm_started, teardown>>
    /\ UNCHANGED <<unitVars, console_requested, hostVars, cleanup_log, svcVars, waitVars,
                   console_state>>


\* --------------------------------------------------------------- start
\* services.py 297-347: start_novnc; a missing websockify or missing noVNC
\* assets is a ManagerError, otherwise the websockify child is tracked
StartNovncOk(res) == ~cfg.novnc_enabled \/ novnc_started \/ res = "ok"

\* cli.py 393-402: what main does after start() returned
AfterStart ==
    IF ~console_requested /\ cfg.cloud_init_enabled THEN "guest_ready"
    ELSE IF ~console_requested THEN "wait_install"
    ELSE "console_spawn"

\* vm.py 976-1033 and cli.py 391-392: start() with the slirp fallback and
\* the start_novnc call, then vm_started = True
Start ==
    /\ pc = "start" /\ outcome = "running"
    /\ \E activeOk \in BOOLEAN, createOk \in BOOLEAN, msg \in SUBSET Keywords,
          xmlDescOk \in BOOLEAN, defineRes \in {"ok", "none", "error"},
          create2Ok \in BOOLEAN, novncRes \in {"ok", "ManagerError"} :
          LET fb == TryNetworkFallback(conn = "open", domain, xml_passt, xmlDescOk,
                                       defineRes, create2Ok)
              r  == StartOutcome(domain, domain_active, createOk, msg, fb)
              failed == r.creates = 1 /\ ~createOk
              call == CallsStartNovnc(r.raise, cfg.novnc_enabled)
              spawn == call /\ ~novnc_started /\ novncRes = "ok"
          IN  IF ~activeOk
              THEN /\ UNCHANGED <<svcVars, virtVars>>
                   /\ RaiseInTry("Exception")
              ELSE /\ start_in' = [ran |-> TRUE, failed |-> failed,
                                   msg |-> IF failed THEN msg ELSE {},
                                   passt |-> xml_passt,
                                   xmlDescOk |-> r.fallback /\ xmlDescOk,
                                   defineRes |-> IF r.fallback THEN defineRes ELSE "ok",
                                   create2Ok |-> r.fallback /\ create2Ok,
                                   text |-> r.text,
                                   novnc |-> call,
                                   running |-> r.running]
                   /\ create_calls' = create_calls + r.creates
                                      + (IF r.fallback THEN fb.creates ELSE 0)
                   /\ redefines' = redefines + (IF r.fallback THEN fb.redefines ELSE 0)
                   /\ domain' = IF r.fallback THEN fb.domain ELSE domain
                   /\ xml_passt' = IF r.fallback /\ fb.redefines = 1 /\ fb.domain = "defined"
                                   THEN FALSE ELSE xml_passt
                   /\ domain_active' = r.running
                   /\ UNCHANGED conn
                   /\ IF spawn
                      THEN /\ processes' = Append(processes, "websockify")
                           /\ alive' = alive \cup {"websockify"}
                           /\ novnc_started' = TRUE
                      ELSE UNCHANGED <<processes, alive, novnc_started>>
                   /\ UNCHANGED svc_shutdown
                   /\ IF r.raise # "none"
                      THEN RaiseInTry(r.raise)
                      ELSE IF call /\ ~StartNovncOk(novncRes)
                      THEN RaiseInTry("ManagerError")
                      ELSE /\ pc' = AfterStart
                           /\ vm_started' = TRUE
                           /\ UNCHANGED <<outcome, retcode, pending, err, entered_try,
                                          teardown>>
    /\ UNCHANGED <<unitVars, cfgVars, hostVars, imgVars, cleanup_log, prepVars, waitVars,
                   console_state>>

\* vm.py 1108-1149 and cli.py 396-397: wait_for_guest_ready swallows every
\* failure and returns a boolean that main ignores
WaitForGuestReady ==
    /\ pc = "guest_ready" /\ outcome = "running"
    /\ Goto("wait_install")
    /\ UNCHANGED <<unitVars, cfgVars, hostVars, imgVars, cleanup_log, svcVars, virtVars, prepVars, waitVars, console_state>>

\* the guest powers off or QEMU exits, at any time
DomainStops ==
    /\ outcome = "running" /\ domain_active
    /\ pc \in {"guest_ready", "wait_install", "wait_loop", "console_wait",
               "console_wait2", "finally", "cleanup"}
    /\ domain_active' = FALSE
    /\ UNCHANGED <<conn, domain, xml_passt, create_calls, redefines, start_in>>
    /\ UNCHANGED <<unitVars, mainVars, cfgVars, hostVars, imgVars, cleanup_log, svcVars, prepVars, waitVars, console_state>>


\* --------------------------------------------------- wait_until_stopped
\* vm.py 1151-1157 and 1190-1193: entry of wait_until_stopped (start has
\* defined the domain); the two handlers are installed
WaitInstall ==
    /\ pc = "wait_install" /\ outcome = "running"
    /\ IF domain = "none"
       THEN /\ RaiseInTry("ManagerError")
            /\ UNCHANGED waitVars
       ELSE /\ prev_handlers' = handlers
            /\ handlers' = "request_shutdown"
            /\ shutdown_requested' = FALSE
            /\ first_sigint_time' = NoTime
            /\ now' = 0
            /\ UNCHANGED <<shutdown_calls, destroy_calls, shutdown_res, late_polls, siglog,
                           shutdown_at>>
            /\ Goto("wait_loop")
    /\ UNCHANGED <<unitVars, cfgVars, hostVars, imgVars, cleanup_log, svcVars, virtVars, prepVars, console_state>>

\* vm.py 1194-1206 and cli.py 398-405: one iteration of the polling loop;
\* an inactive domain or a libvirtError ends the wait and main goes on with
\* retcode 0; any other exception (log() writing to a closed stdout raises
\* OSError) propagates; the finally clause restores the saved handlers on
\* both exits.  The clock of the model stops at MaxTime: the polls made
\* after that are only counted, modulo 2, so that the loop can go on
WaitPoll ==
    /\ pc = "wait_loop" /\ outcome = "running"
    /\ \E res \in {"ok", "libvirtError", "Exception"} :
          IF res = "ok" /\ domain_active
          THEN /\ now' = Min(now + 1, MaxTime)
               /\ late_polls' = IF now = MaxTime THEN ~late_polls ELSE late_polls
               /\ UNCHANGED <<handlers, mainVars>>
          ELSE /\ handlers' = RestoredHandlers(prev_handlers, handlers)
               /\ late_polls' = FALSE
               /\ UNCHANGED now
               /\ IF res = "Exception"
                  THEN RaiseInTry("Exception")
                  ELSE /\ pc' = "finally"
                       /\ retcode' = 0
                       /\ UNCHANGED <<outcome, pending, err, entered_try, vm_started,
                                      teardown>>
    /\ UNCHANGED <<shutdown_requested, first_sigint_time, shutdown_calls, destroy_calls,
                   shutdown_res, siglog, shutdown_at, prev_handlers>>
    /\ UNCHANGED <<unitVars, cfgVars, hostVars, imgVars, cleanup_log, svcVars, virtVars, prepVars,
                   console_state>>

\* vm.py 1159-1188: _request_shutdown runs for SIGTERM and SIGINT while
\* wait_until_stopped is active; _do_shutdown calls domain.shutdown and,
\* when that raises libvirtError, domain.destroy
RequestShutdown(sig, budget) ==
    /\ pc = "wait_loop" /\ outcome = "running" /\ handlers = "request_shutdown"
    /\ Len(siglog) < budget
    /\ siglog' = Append(siglog, [sig |-> sig, t |-> now])
    /\ LET confirm == sig = "SIGTERM" \/ SigintConfirms(first_sigint_time, now)
           acts == confirm /\ DoShutdownActs(shutdown_requested)
       IN  /\ first_sigint_time' = FirstSigintTime(confirm, first_sigint_time, now)
           /\ shutdown_requested' = (shutdown_requested \/ confirm)
           /\ IF acts
              THEN /\ shutdown_at' = Len(siglog')
                   /\ shutdown_calls' = shutdown_calls + 1
                   /\ \E res \in {"ok", "libvirtError"}, destroyOk \in BOOLEAN :
                         /\ shutdown_res' = res
                         /\ IF DestroyAfterShutdown(res)
                            THEN /\ destroy_calls' = destroy_calls + 1
                                 /\ domain_active' = (domain_active /\ ~destroyOk)
                            ELSE /\ ~destroyOk
                                 /\ UNCHANGED <<destroy_calls, domain_active>>
              ELSE UNCHANGED <<shutdown_at, shutdown_calls, destroy_calls, shutdown_res,
                               domain_active>>
    /\ UNCHANGED <<handlers, now, late_polls, prev_handlers>>
    /\ UNCHANGED <<conn, domain, xml_passt, create_calls, redefines, start_in>>
    /\ UNCHANGED <<unitVars, mainVars, cfgVars, hostVars, imgVars, cleanup_log, svcVars, prepVars, console_state>>

SigTerm == RequestShutdown("SIGTERM", MainSignals)

SigInt == RequestShutdown("SIGINT", MainSignals)

WaitSigTerm == RequestShutdown("SIGTERM", MaxSignals)

WaitSigInt == RequestShutdown("SIGINT", MaxSignals)

\* ---------------------------------------------------------------- console
\* cli.py 41-50: run_console spawns virsh console and installs its
\* SIGTERM handler
ConsoleSpawn ==
    /\ pc = "console_spawn" /\ outcome = "running"
    /\ \E ok \in BOOLEAN :
          IF ok
          THEN /\ console_state' = "running"
               /\ handlers' = "terminate_console"
               /\ Goto("console_wait")
          ELSE /\ UNCHANGED <<console_state, handlers>>
               /\ RaiseInTry("Exception")
    /\ UNCHANGED <<shutdown_requested, first_sigint_time, now, shutdown_calls,
                   destroy_calls, shutdown_res, late_polls, siglog, shutdown_at, prev_handlers>>
    /\ UNCHANGED <<unitVars, cfgVars, hostVars, imgVars, cleanup_log, svcVars, virtVars, prepVars>>

\* cli.py 51-57 and 402-405: virsh exits; its status is main's return value
ConsoleExit ==
    /\ pc \in {"console_wait", "console_wait2"} /\ outcome = "running"
    /\ \E rc \in ConsoleCodes :
          /\ console_state = "terminating" => rc # 0
          /\ retcode' = rc
    /\ console_state' = "exited"
    /\ handlers' = "default"
    /\ pc' = "finally"
    /\ UNCHANGED <<outcome, pending, err, entered_try, vm_started, teardown>>
    /\ UNCHANGED <<shutdown_requested, first_sigint_time, now, shutdown_calls,
                   destroy_calls, shutdown_res, late_polls, siglog, shutdown_at, prev_handlers>>
    /\ UNCHANGED <<unitVars, cfgVars, hostVars, imgVars, cleanup_log, svcVars, virtVars, prepVars>>

\* cli.py 47-48: SIGTERM during the console terminates virsh
ConsoleSigTerm ==
    /\ pc \in {"console_wait", "console_wait2"} /\ outcome = "running"
    /\ console_state = "running"
    /\ console_state' = "terminating"
    /\ UNCHANGED <<unitVars, mainVars, cfgVars, hostVars, imgVars, cleanup_log, svcVars, virtVars, prepVars, waitVars>>

\* cli.py 53-57: the first KeyboardInterrupt is forwarded to virsh, one
\* raised during the second proc.wait() leaves run_console
ConsoleSigInt ==
    /\ pc \in {"console_wait", "console_wait2"} /\ outcome = "running"
    /\ IF pc = "console_wait"
       THEN /\ Goto("console_wait2")
            /\ UNCHANGED handlers
       ELSE /\ handlers' = "default"
            /\ RaiseInTry("KeyboardInterrupt")
    /\ UNCHANGED <<shutdown_requested, first_sigint_time, now, shutdown_calls,
                   destroy_calls, shutdown_res, late_polls, siglog, shutdown_at, prev_handlers>>
    /\ UNCHANGED <<unitVars, cfgVars, hostVars, imgVars, cleanup_log, svcVars, virtVars, prepVars, console_state>>


\* ------------------------------------------------------ the finally block
\* cli.py 416-418 and vm.py 376-380: _mark_installed writes the marker
\* unless it exists
MarkInstalled ==
    /\ pc = "finally" /\ outcome = "running"
    /\ LET write == MarkInstalledDue(vm_started, cfg.persist) /\ ~marker
       IN  /\ marker' = (marker \/ write)
           /\ marker_written' = (marker_written \/ write)
    /\ Goto("cleanup")
    /\ UNCHANGED <<boot_iso, disk_reused, work_disk, skip, disk_before, order_before,
                   tpm_process>>
    /\ UNCHANGED <<unitVars, cfgVars, hostVars, imgVars, cleanup_log, svcVars, virtVars, waitVars, console_state>>

\* vm.py 1208-1243 and cli.py 419: cleanup; swtpm is stopped, the domain is
\* destroyed and undefined (libvirt errors ignored), leftover QEMU processes
\* are killed, and without persistence the VM directory is removed
CleanupCall(detail) ==
    /\ pc = "cleanup" /\ outcome = "running"
    /\ tpm_process' = FALSE
    /\ \E tpmRes \in {"ok", "TimeoutExpired", "OSError"},
          isActiveRes \in {"active", "inactive", "libvirtError"},
          destroyRes \in {"ok", "libvirtError"},
          undefineRes \in {"ok", "libvirtError"},
          killed \in BOOLEAN, removed \in BOOLEAN :
          LET r == CleanupOutcome(tpm_process, tpmRes, domain, isActiveRes, destroyRes,
                                  undefineRes)
              gone == ~r.raised /\ ~cfg.persist /\ removed
          IN  /\ (isActiveRes = "active") => domain_active
              \* answers of calls that are not made are not told apart
              /\ ~tpm_process => tpmRes = "ok"
              /\ domain = "none" => (isActiveRes = "inactive" /\ undefineRes = "ok")
              /\ isActiveRes # "active" => destroyRes = "ok"
              /\ cfg.persist => ~removed
              /\ ~domain_active => ~killed
              /\ cleanup_log' = [calls |-> cleanup_log.calls + 1,
                                 sweeps |-> cleanup_log.sweeps
                                            + (IF r.swept THEN 1 ELSE 0),
                                 raised |-> r.raised,
                                 failed |-> IF detail THEN r.failed ELSE {}]
              /\ domain_active' = (domain_active /\ ~r.destroyed /\ ~(r.swept /\ killed))
              /\ work_disk' = IF gone THEN NoDisk ELSE work_disk
              /\ marker' = IF gone THEN FALSE ELSE marker
              /\ vsize' = IF gone THEN 0 ELSE vsize
              /\ files' = IF gone THEN files \ {"seed_iso"} ELSE files
              /\ IF r.raised
                 THEN RaiseInFinally("Exception")
                 ELSE /\ pc' = "close"
                      /\ teardown' = Append(teardown, "cleanup")
                      /\ UNCHANGED <<outcome, retcode, pending, err, entered_try,
                                     vm_started>>
    /\ UNCHANGED <<boot_iso, disk_reused, marker_written, skip, disk_before,
                   order_before>>
    /\ UNCHANGED <<vsize_before, iso_downloads, writes, run, steps>>
    /\ UNCHANGED <<conn, domain, xml_passt, create_calls, redefines, start_in>>
    /\ UNCHANGED <<unitVars, cfgVars, hostVars, svcVars, waitVars, console_state>>

\* cleanup as the full run sees it
Cleanup == CleanupCall(FALSE)

\* cleanup with the failed steps of the call kept in cleanup_log
TeardownCleanup == CleanupCall(TRUE)

\* vm.py 108-111 and cli.py 420: close
Close ==
    /\ pc = "close" /\ outcome = "running"
    /\ conn' = IF conn = "open" THEN "closed" ELSE conn
    /\ pc' = "svc_stop"
    /\ teardown' = Append(teardown, "close")
    /\ UNCHANGED <<outcome, retcode, pending, err, entered_try, vm_started>>
    /\ UNCHANGED <<domain, domain_active, xml_passt, create_calls, redefines, start_in>>
    /\ UNCHANGED <<unitVars, cfgVars, hostVars, imgVars, cleanup_log, svcVars, prepVars, waitVars, console_state>>

\* services.py 349-360 and cli.py 421: ServiceManager.stop terminates every
\* tracked child (SIGTERM, then SIGKILL after 5 s); main then returns, or
\* the pending KeyboardInterrupt leaves main
ServiceStop ==
    /\ pc = "svc_stop" /\ outcome = "running"
    /\ LET r == StopOutcome(processes, alive, stubborn, svc_shutdown)
       IN  /\ svc_shutdown' = r.shutdown
           /\ alive' = r.alive
    /\ pc' = "done"
    /\ teardown' = Append(teardown, "stop")
    /\ outcome' = IF pending = "none" THEN "returned" ELSE "uncaught"
    /\ UNCHANGED <<retcode, pending, err, entered_try, vm_started>>
    /\ UNCHANGED <<processes, novnc_started>>
    /\ UNCHANGED <<unitVars, cfgVars, hostVars, imgVars, cleanup_log, virtVars, prepVars, waitVars, console_state>>

\* ------------------------------------------- signals, default handlers
\* SIGINT under Python's default handler raises KeyboardInterrupt where
\* main currently is: before the try it leaves main at once, inside the try
\* it unwinds to the finally block, inside the finally block it aborts it
Interrupt ==
    /\ outcome = "running" /\ handlers = "default"
    /\ pc \in PreTryPcs \cup TryPcs \cup FinallyPcs
    /\ CASE pc \in PreTryPcs -> RaiseBeforeTry("KeyboardInterrupt")
         [] pc \in TryPcs -> RaiseInTry("KeyboardInterrupt")
         [] pc \in FinallyPcs -> RaiseInFinally("KeyboardInterrupt")
    /\ UNCHANGED <<unitVars, cfgVars, hostVars, imgVars, cleanup_log, svcVars, virtVars, prepVars, waitVars, console_state>>

\* SIGTERM under the default disposition ends the process where it is
Terminate ==
    /\ outcome = "running" /\ handlers = "default"
    /\ pc \in PreTryPcs \cup TryPcs \cup FinallyPcs
    /\ pc' = "done"
    /\ outcome' = "killed"
    /\ UNCHANGED <<retcode, pending, err, entered_try, vm_started, teardown>>
    /\ UNCHANGED <<unitVars, cfgVars, hostVars, imgVars, cleanup_log, svcVars, virtVars, prepVars, waitVars, console_state>>

\* ------------------------------------------------------- specification
Next ==
    \/ ParseEnv \/ StartLibvirt \/ WaitForLibvirt \/ StartSushy \/ VMManagerInit
    \/ Connect
    \/ PrepKvm \/ ResolveBootFrom \/ EnsureBaseImage \/ PrepareWorkImage \/ SmartSkip
    \/ PrepareFirmware \/ StartTpm \/ GenerateCloudInit \/ DefineDomain
    \/ Start \/ WaitForGuestReady \/ DomainStops
    \/ WaitInstall \/ WaitPoll \/ SigTerm \/ SigInt
    \/ ConsoleSpawn \/ ConsoleExit \/ ConsoleSigTerm \/ ConsoleSigInt
    \/ MarkInstalled \/ Cleanup \/ Close \/ ServiceStop
    \/ Interrupt \/ Terminate

Spec == Init /\ [][Next]_vars


\* prepare alone, over every boot order and VM-directory state
NextPrepare ==
    \/ PrepKvm \/ ResolveBootFrom \/ EnsureBaseImage \/ PrepareWorkImage \/ SmartSkip
    \/ PrepareFirmware \/ StartTpm \/ GenerateCloudInit \/ DefineDomain

SpecPrepare == InitPrepare /\ [][NextPrepare]_vars

\* prepare run once and then again on the files it left, over every state
\* of the VM directory and the caches, every DISK_SIZE and every virtual
\* size of an existing working disk (the boot order is the default one)
InitImage ==
    \E persist \in BOOLEAN, forceIso \in BOOLEAN, bootFrom \in {"none", "iso", "disk"},
       url \in BOOLEAN, blank \in BOOLEAN, cloudInit \in BOOLEAN, fw \in BOOLEAN,
       disk \in {NoDisk} \cup FileSizes, size \in 0..MaxDiskSize,
       requested \in 0..MaxDiskSize, installed \in BOOLEAN,
       existing \in SUBSET Artefacts :
        /\ ~persist => (disk = NoDisk /\ ~installed /\ "seed_iso" \notin existing)
        /\ (disk = NoDisk) <=> (size = 0)
        /\ installed => disk # NoDisk
        /\ url => bootFrom # "none"
        /\ ("boot_source" \in existing) => url
        /\ ("base_image" \in existing) <=> (disk # NoDisk /\ ~blank)
        /\ ("firmware_vars" \in existing) <=> (disk # NoDisk /\ fw)
        /\ ("seed_iso" \in existing) <=> (disk # NoDisk /\ cloudInit)
        /\ blank => requested # 0
        /\ InitUnits
        /\ InitMain("prep_kvm", TRUE, FALSE)
        /\ InitHost(FALSE, TRUE, TRUE)
        /\ InitFiles(existing, size)
        /\ console_requested = FALSE
        /\ InitServices(<<"virtlogd", "libvirtd">>)
        /\ InitLibvirt("open", "none", FALSE, FALSE, 0, NoStart)
        /\ InitDisk([MakeCfg(persist, forceIso, bootFrom, blank, FALSE, FALSE, cloudInit,
                             FALSE,
                             IF bootFrom = "iso" THEN <<"cdrom", "hd">> ELSE <<"hd">>)
                        EXCEPT !.boot_url = url, !.disk_size = requested,
                               !.firmware = fw],
                    disk, installed)
        /\ InitSignals

NextImage == NextPrepare \/ PrepareAgain

SpecImage == InitImage /\ [][NextImage]_vars

\* main from its entry to connect, in rootful and rootless containers
InitStartup ==
    \E rl \in BOOLEAN, persist \in BOOLEAN, redfish \in BOOLEAN, installed \in BOOLEAN,
       cloudInit \in BOOLEAN :
        /\ InitUnits
        /\ InitMain("parse_env", FALSE, FALSE)
        /\ InitHost(rl, FALSE, FALSE)
        /\ InitFiles(IF installed THEN Artefacts ELSE {}, IF installed THEN 1 ELSE 0)
        /\ console_requested = FALSE
        /\ InitServices(<<>>)
        /\ InitLibvirt("none", "none", FALSE, FALSE, 0, NoStart)
        /\ InitDisk(MakeCfg(persist, FALSE, "none", FALSE, FALSE, redfish, cloudInit,
                            FALSE, <<"hd">>),
                    IF installed THEN REUSE_THRESHOLD + 1 ELSE NoDisk, installed)
        /\ InitSignals

NextStartup ==
    \/ ParseEnv \/ StartLibvirt \/ WaitForLibvirt \/ StartSushy \/ VMManagerInit
    \/ Connect

SpecStartup == InitStartup /\ [][NextStartup]_vars

\* main at its finally block (cli.py 416): the try block was left after
\* prepare defined the domain or failed before, with or without a running
\* domain and swtpm
InitTeardown ==
    \E persist \in BOOLEAN, started \in BOOLEAN, tpm \in BOOLEAN, defined \in BOOLEAN,
       active \in BOOLEAN, installed \in BOOLEAN, failed \in BOOLEAN :
        /\ started => (defined /\ ~failed)
        /\ active => defined
        /\ InitUnits
        /\ InitMain("finally", TRUE, started)
        /\ InitHost(FALSE, TRUE, TRUE)
        /\ InitFiles(Artefacts, 1)
        /\ console_requested = FALSE
        /\ InitServices(<<"virtlogd", "libvirtd">>)
        /\ InitLibvirt("open", IF defined THEN "defined" ELSE "none", active, FALSE,
                       IF started THEN 1 ELSE 0,
                       IF started THEN [NoStart EXCEPT !.ran = TRUE, !.running = TRUE]
                       ELSE NoStart)
        /\ InitDiskWith(MakeCfg(persist, FALSE, "none", FALSE, FALSE, FALSE, FALSE, tpm,
                                <<"hd">>),
                        REUSE_THRESHOLD + 1, installed, tpm /\ defined)
        /\ InitSignals

NextTeardown ==
    \/ MarkInstalled \/ TeardownCleanup \/ Close \/ ServiceStop \/ DomainStops
    \/ Interrupt \/ Terminate

SpecTeardown == InitTeardown /\ [][NextTeardown]_vars

\* wait_until_stopped alone, with MaxSignals signals
NextWait ==
    \/ WaitInstall \/ WaitPoll \/ WaitSigTerm \/ WaitSigInt \/ DomainStops

SpecWait == InitWait /\ [][NextWait]_vars

\* vm.py 1194-1203: nothing blocks the loop, so it polls again and again for
\* as long as it runs; what a poll sees is up to the guest and to libvirt
SpecWaitLive == InitWait /\ [][NextWait]_vars /\ WF_vars(WaitPoll)


\* ------------------------------------------- operations called on their own
\* main is not running: one operation is called directly, as the unit tests
\* of the repository do
InitAlone ==
    /\ InitMain("called_alone", FALSE, FALSE)
    /\ InitHost(FALSE, FALSE, FALSE)
    /\ InitFiles({}, 0)
    /\ console_requested = FALSE
    /\ InitLibvirt("none", "none", FALSE, FALSE, 0, NoStart)
    /\ InitDisk(MakeCfg(FALSE, FALSE, "none", FALSE, FALSE, FALSE, FALSE, FALSE, <<"hd">>),
                NoDisk, FALSE)
    /\ InitSignals

\* the children ServiceManager can track, in the order it spawns them
ServiceChildren == <<"virtlogd", "libvirtd", "sushy", "websockify">>

\* services.py 349-360: a call of ServiceManager.stop
Stop ==
    /\ pc = "called_alone" /\ stop_calls < MaxStopCalls
    /\ LET r == StopOutcome(processes, alive, stubborn, svc_shutdown)
       IN  /\ svc_shutdown' = r.shutdown
           /\ alive' = r.alive
           /\ sent' = sent \o r.sent
    /\ stop_calls' = stop_calls + 1
    /\ UNCHANGED <<processes, novnc_started, stubborn>>
    /\ UNCHANGED <<sockVars, dlVars, portVars, renderVars, spaceVars, ciVars, swVars, defVars>>
    /\ UNCHANGED <<peVars>>
    /\ UNCHANGED <<mainVars, cfgVars, hostVars, imgVars, cleanup_log, virtVars, prepVars,
                   waitVars, console_state>>

\* a tracked child exits on its own
ChildExits ==
    /\ pc = "called_alone"
    /\ \E p \in alive : alive' = alive \ {p}
    /\ UNCHANGED <<processes, svc_shutdown, novnc_started, stopVars>>
    /\ UNCHANGED <<sockVars, dlVars, portVars, renderVars, spaceVars, ciVars, swVars, defVars>>
    /\ UNCHANGED <<peVars>>
    /\ UNCHANGED <<mainVars, cfgVars, hostVars, imgVars, cleanup_log, virtVars, prepVars,
                   waitVars, console_state>>

\* ServiceManager.stop called MaxStopCalls times on any tracked children,
\* some of them exited already, some of them deaf to SIGTERM
InitStopAlone ==
    \E tracked \in SUBSET Range(ServiceChildren) :
    \E running \in SUBSET tracked :
    \E stuck \in SUBSET running :
        /\ InitAlone
        /\ processes = Restrict(ServiceChildren, tracked)
        /\ alive = running
        /\ svc_shutdown = FALSE
        /\ novnc_started = ("websockify" \in tracked)
        /\ InitStop(stuck)
        /\ InitSockets([p \in Range(SocketPaths) |-> "absent"])
        /\ InitDownload(DEFAULT_RETRIES, "absent")
        /\ InitPorts(DefaultPorts)
        /\ InitRender(DefaultRender)
        /\ InitSpace(2 * MaxDiskSize)
        /\ InitGuestWait
        /\ InitSocketWait
        /\ InitDefine
        /\ InitParseBoot

NextStop == Stop \/ ChildExits

SpecStop == InitStopAlone /\ [][NextStop]_vars


\* services.py 69-70 and 103-132: _start_libvirt hands the next socket path
\* to _cleanup_socket.  Another libvirt sharing the directory may remove
\* its socket between exists() and connect, or between connect and unlink
CleanupSocket ==
    /\ pc = "called_alone" /\ sock_idx <= Len(SocketPaths)
    /\ LET path == SocketPaths[sock_idx]
           found == sockets[path]
       IN  \E atProbe \in {found, "absent"}, atUnlink \in PathKinds :
           \E probe \in ProbeResults(atProbe), unlinkRes \in UnlinkResults(atUnlink) :
              LET r == CleanupSocketOutcome(found, probe, unlinkRes)
                  left == IF r.unlink THEN atUnlink
                          ELSE IF r.probe # "none" THEN atProbe
                          ELSE found
              IN  /\ atUnlink \in {atProbe, "absent"}
                  \* results of calls that are not made are not told apart
                  /\ r.probe = "none" => atProbe = found
                  /\ ~r.unlink => atUnlink = atProbe
                  /\ sockets' = [sockets EXCEPT ![path] = IF r.removed THEN "absent"
                                                         ELSE left]
                  /\ sock_last' = [path |-> path, found |-> found, probe |-> r.probe,
                                   unlink |-> r.unlink, removed |-> r.removed]
    /\ sock_idx' = sock_idx + 1
    /\ UNCHANGED <<stopVars, dlVars, portVars, renderVars, spaceVars, ciVars, swVars, defVars>>
    /\ UNCHANGED <<peVars>>
    /\ UNCHANGED <<mainVars, cfgVars, hostVars, imgVars, cleanup_log, svcVars, virtVars,
                   prepVars, waitVars, console_state>>

\* the socket loop of _start_libvirt over every content of the four paths
InitSocketCleanup ==
    \E found \in [Range(SocketPaths) -> PathKinds] :
        /\ InitAlone
        /\ InitServices(<<>>)
        /\ InitStop({})
        /\ InitSockets(found)
        /\ InitDownload(DEFAULT_RETRIES, "absent")
        /\ InitPorts(DefaultPorts)
        /\ InitRender(DefaultRender)
        /\ InitSpace(2 * MaxDiskSize)
        /\ InitGuestWait
        /\ InitSocketWait
        /\ InitDefine
        /\ InitParseBoot

NextSocketCleanup == CleanupSocket

SpecSocketCleanup == InitSocketCleanup /\ [][NextSocketCleanup]_vars


\* utils.py 253-265: one iteration of the loop of download_file_with_retry:
\* download_file is called; on success the function returns; a ManagerError
\* of the last attempt is raised again, one of an earlier attempt is followed
\* by the sleep; any other exception leaves the function at once
DownloadAttempt ==
    /\ pc = "called_alone" /\ dl.result = "running" /\ dl.attempt < dl.retries
    /\ \E end \in DownloadEnds :
          LET r == DownloadFile(end, dest)
              attempt == dl.attempt + 1
              retry == r.raise = "ManagerError" /\ attempt < dl.retries
          IN  /\ dest' = r.dest
              /\ tmp_left' = tmp_left + r.tmp
              /\ dl' = [dl EXCEPT !.attempt = attempt,
                                  !.last = end,
                                  !.waits = IF retry THEN Append(@, RetryDelay(attempt))
                                            ELSE @,
                                  !.result = IF retry THEN "running"
                                             ELSE IF r.raise = "none" THEN "returned"
                                             ELSE r.raise]
    /\ UNCHANGED <<stopVars, sockVars, portVars, renderVars, spaceVars, ciVars, swVars>>
    /\ UNCHANGED <<peVars>>
    /\ UNCHANGED <<defVars>>
    /\ UNCHANGED <<mainVars, cfgVars, hostVars, imgVars, cleanup_log, svcVars, virtVars,
                   prepVars, waitVars, console_state>>

\* download_file_with_retry called with 1..MaxRetries retries on a
\* destination that is absent or holds an earlier complete download
InitDownloadAlone ==
    \E retries \in 1..MaxRetries, content \in {"absent", "old"} :
        /\ InitAlone
        /\ InitServices(<<>>)
        /\ InitStop({})
        /\ InitSockets([p \in Range(SocketPaths) |-> "absent"])
        /\ InitDownload(retries, content)
        /\ InitPorts(DefaultPorts)
        /\ InitRender(DefaultRender)
        /\ InitSpace(2 * MaxDiskSize)
        /\ InitGuestWait
        /\ InitSocketWait
        /\ InitDefine
        /\ InitParseBoot

NextDownload == DownloadAttempt

SpecDownload == InitDownloadAlone /\ [][NextDownload]_vars

\* utils.py 256 and 265: with retries below 1 range(1, retries + 1) is empty:
\* the loop body is never entered and the function returns None
DownloadNoAttempt ==
    /\ pc = "called_alone" /\ dl.result = "running" /\ dl.attempt >= dl.retries
    /\ dl' = [dl EXCEPT !.result = "returned"]
    /\ UNCHANGED <<dest, tmp_left>>
    /\ UNCHANGED <<stopVars, sockVars, portVars, renderVars, spaceVars, ciVars, swVars>>
    /\ UNCHANGED <<defVars, peVars>>
    /\ UNCHANGED <<mainVars, cfgVars, hostVars, imgVars, cleanup_log, svcVars, virtVars,
                   prepVars, waitVars, console_state>>

\* download_file_with_retry called with any retries argument from 0 on
InitDownloadAny ==
    \E retries \in 0..MaxRetries, content \in {"absent", "old"} :
        /\ InitAlone
        /\ InitServices(<<>>)
        /\ InitStop({})
        /\ InitSockets([p \in Range(SocketPaths) |-> "absent"])
        /\ InitDownload(retries, content)
        /\ InitPorts(DefaultPorts)
        /\ InitRender(DefaultRender)
        /\ InitSpace(2 * MaxDiskSize)
        /\ InitGuestWait
        /\ InitSocketWait
        /\ InitDefine
        /\ InitParseBoot

NextDownloadAny == DownloadAttempt \/ DownloadNoAttempt

SpecDownloadAny == InitDownloadAny /\ [][NextDownloadAny]_vars


\* config.py 436-474: parse_env resolves the ports
ParseEnvPorts ==
    /\ pc = "called_alone" /\ port_cfg.state = "none"
    /\ port_cfg' = ParsePorts(port_env)
    /\ UNCHANGED <<port_env, stopVars, sockVars, dlVars, renderVars, spaceVars, ciVars>>
    /\ UNCHANGED <<peVars>>
    /\ UNCHANGED <<defVars>>
    /\ UNCHANGED <<swVars>>
    /\ UNCHANGED <<mainVars, cfgVars, hostVars, imgVars, cleanup_log, svcVars, virtVars,
                   prepVars, waitVars, console_state>>

\* parse_env on every choice of SSH_PORT, VNC_PORT, NOVNC_PORT, REDFISH_PORT
\* in 1..MaxPort, every GRAPHICS, REDFISH_ENABLE and every PORT_FWD of at
\* most MaxForwards entries
InitPortsAlone ==
    \E ssh \in 1..MaxPort, vnc \in 1..MaxPort, novnc \in 1..MaxPort, redfish \in 1..MaxPort,
       graphics \in {"none", "vnc", "novnc", "spice"}, redfishOn \in BOOLEAN,
       forwards \in SeqsUpTo([host_port : 1..MaxPort, guest_port : 1..2], MaxForwards) :
        /\ InitAlone
        /\ InitServices(<<>>)
        /\ InitStop({})
        /\ InitSockets([p \in Range(SocketPaths) |-> "absent"])
        /\ InitDownload(DEFAULT_RETRIES, "absent")
        /\ InitPorts([ssh |-> ssh, vnc |-> vnc, novnc |-> novnc, redfish |-> redfish,
                      graphics |-> graphics, redfish_enabled |-> redfishOn,
                      forwards |-> forwards])
        /\ InitRender(DefaultRender)
        /\ InitSpace(2 * MaxDiskSize)
        /\ InitGuestWait
        /\ InitSocketWait
        /\ InitDefine
        /\ InitParseBoot

NextPorts == ParseEnvPorts

SpecPorts == InitPortsAlone /\ [][NextPorts]_vars


\* vm.py 666-975: a call of _render_domain_xml; random_mac may draw any
\* address for a NIC that has none yet
RenderDomainXml ==
    /\ pc = "called_alone" /\ Len(rendered) < MaxRenders
    /\ \E random \in [1..Len(render_cfg.nics) -> RandomMacs] :
          LET r == DomainXml(render_cfg, network_macs, random)
          IN  /\ rendered' = Append(rendered, [result |-> r.result, devices |-> r.devices])
              /\ network_macs' = r.macs
    /\ UNCHANGED <<render_cfg, stopVars, sockVars, dlVars, portVars, spaceVars, ciVars>>
    /\ UNCHANGED <<peVars>>
    /\ UNCHANGED <<defVars>>
    /\ UNCHANGED <<swVars>>
    /\ UNCHANGED <<mainVars, cfgVars, hostVars, imgVars, cleanup_log, svcVars, virtVars,
                   prepVars, waitVars, console_state>>

\* a new VMManager on every VMConfig parse_env can return: any boot order,
\* one to MaxNics NICs with any NETWORK{N}_BOOT and NETWORK{N}_MAC, with or
\* without a boot ISO
InitRenderAlone ==
    \E iso \in BOOLEAN :
    \E order \in BootOrders(iso, MaxBootLen) :
    \E nics \in SeqsUpTo([boot : BOOLEAN, mac_address : Macs \cup {NoMac}], MaxNics) \ {<<>>} :
        /\ InitAlone
        /\ InitServices(<<>>)
        /\ InitStop({})
        /\ InitSockets([p \in Range(SocketPaths) |-> "absent"])
        /\ InitDownload(DEFAULT_RETRIES, "absent")
        /\ InitPorts(DefaultPorts)
        /\ InitRender([boot_order |-> order, boot_iso |-> iso, nics |-> nics])
        /\ InitSpace(2 * MaxDiskSize)
        /\ InitGuestWait
        /\ InitSocketWait
        /\ InitDefine
        /\ InitParseBoot

NextRender == RenderDomainXml

SpecRender == InitRenderAlone /\ [][NextRender]_vars


\* free space told apart against DISK_SIZE in 1..MaxDiskSize: unknown (0),
\* short of it, less than twice it, plenty
FreeSpaces == 0..(2 * MaxDiskSize)

\* _prepare_work_image is about to run (vm.py 134) in a VM directory with
\* any free space, on any existing working disk, DISK_SIZE and base image
InitSpaceCheck ==
    \E persist \in BOOLEAN, bootFrom \in {"none", "disk"}, blank \in BOOLEAN,
       disk \in {NoDisk} \cup FileSizes, size \in 0..MaxDiskSize,
       requested \in 0..MaxDiskSize, free \in FreeSpaces :
        /\ ~persist => disk = NoDisk
        /\ (disk = NoDisk) <=> (size = 0)
        /\ blank => requested # 0
        /\ InitMain("prep_work", TRUE, FALSE)
        /\ InitHost(FALSE, TRUE, TRUE)
        /\ InitFiles(IF blank THEN {} ELSE {"base_image"}, size)
        /\ console_requested = FALSE
        /\ InitServices(<<"virtlogd", "libvirtd">>)
        /\ InitLibvirt("open", "none", FALSE, FALSE, 0, NoStart)
        /\ InitDisk([MakeCfg(persist, FALSE, bootFrom, blank, FALSE, FALSE, FALSE, FALSE,
                             <<"hd">>)
                        EXCEPT !.disk_size = requested],
                    disk, FALSE)
        /\ InitSignals
        /\ InitStop({})
        /\ InitSockets([p \in Range(SocketPaths) |-> "absent"])
        /\ InitDownload(DEFAULT_RETRIES, "absent")
        /\ InitPorts(DefaultPorts)
        /\ InitRender(DefaultRender)
        /\ InitSpace(free)
        /\ InitGuestWait
        /\ InitSocketWait
        /\ InitDefine
        /\ InitParseBoot

NextSpaceCheck == PrepareWorkImage

SpecSpaceCheck == InitSpaceCheck /\ [][NextSpaceCheck]_vars


\* vm.py 1108-1114: wait_for_guest_ready returns False when the guest agent
\* never answers, True at once when cloud-init is not enabled
WaitForGuestAgent ==
    /\ pc = "called_alone" /\ ci.state = "idle"
    /\ \E res \in {"no_agent", "no_cloud_init", "polling"} : ci' = [ci EXCEPT !.state = res]
    /\ UNCHANGED <<stopVars, sockVars, dlVars, portVars, renderVars, spaceVars, swVars>>
    /\ UNCHANGED <<peVars>>
    /\ UNCHANGED <<defVars>>
    /\ UNCHANGED <<mainVars, cfgVars, hostVars, imgVars, cleanup_log, svcVars, virtVars,
                   prepVars, waitVars, console_state>>

\* vm.py 1124-1149: one pass of the cloud-init loop: the deadline test, a
\* _guest_exec call taking d seconds, and the sleep that follows it; time
\* past the deadline is not told apart
CloudInitPoll ==
    /\ pc = "called_alone" /\ ci.state = "polling"
    /\ IF ci.elapsed >= CI_TIMEOUT
       THEN ci' = [ci EXCEPT !.state = "timeout"]
       ELSE \E ret \in ExecResults, d \in ExecSeconds :
              LET failures == CiFailures(ci.failures, ret)
                  calls == ci.calls + 1
                  slept == Min(ci.elapsed + d + CI_INTERVAL, CI_TIMEOUT)
              IN  ci' = [state |-> IF ret = "none"
                                   THEN IF failures >= CI_FAIL_LIMIT
                                        THEN "skipped" ELSE "polling"
                                   ELSE IF ret = "running" THEN "polling" ELSE ret,
                         failures |-> failures,
                         calls |-> calls,
                         last_ok |-> IF ret = "none" THEN ci.last_ok ELSE calls,
                         elapsed |-> IF ret \in {"none", "running"}
                                        /\ ~(ret = "none" /\ failures >= CI_FAIL_LIMIT)
                                     THEN slept ELSE Min(ci.elapsed + d, CI_TIMEOUT)]
    /\ UNCHANGED <<stopVars, sockVars, dlVars, portVars, renderVars, spaceVars, swVars>>
    /\ UNCHANGED <<peVars>>
    /\ UNCHANGED <<defVars>>
    /\ UNCHANGED <<mainVars, cfgVars, hostVars, imgVars, cleanup_log, svcVars, virtVars,
                   prepVars, waitVars, console_state>>

\* wait_for_guest_ready is called on a running domain
InitGuestWaitAlone ==
    /\ InitAlone
    /\ InitServices(<<>>)
    /\ InitStop({})
    /\ InitSockets([p \in Range(SocketPaths) |-> "absent"])
    /\ InitDownload(DEFAULT_RETRIES, "absent")
    /\ InitPorts(DefaultPorts)
    /\ InitRender(DefaultRender)
    /\ InitSpace(2 * MaxDiskSize)
    /\ InitGuestWait
    /\ InitSocketWait
    /\ InitDefine
    /\ InitParseBoot

NextGuestWait == WaitForGuestAgent \/ CloudInitPoll

SpecGuestWait == InitGuestWaitAlone /\ [][NextGuestWait]_vars


\* services.py 145-153: _wait_for_libvirt begins with the first path
BeginSocketWait ==
    /\ pc = "called_alone" /\ sw.step = "idle"
    /\ sw' = [sw EXCEPT !.step = WaitedPaths[1]]
    /\ UNCHANGED <<stopVars, sockVars, dlVars, portVars, renderVars, spaceVars, ciVars>>
    /\ UNCHANGED <<peVars>>
    /\ UNCHANGED <<defVars>>
    /\ UNCHANGED <<mainVars, cfgVars, hostVars, imgVars, cleanup_log, svcVars, virtVars,
                   prepVars, waitVars, console_state>>

\* utils.py 166-173: one wait_for_path call: the path is seen after t
\* seconds, before the deadline, or the call gives up at the deadline
WaitForPath ==
    /\ pc = "called_alone" /\ sw.step \in Range(WaitedPaths)
    /\ \E found \in BOOLEAN, t \in 0..SOCKET_TIMEOUT :
          /\ found <=> t < SOCKET_TIMEOUT
          /\ sw' = [step |-> AfterWaitForPath(sw.step, found, rootless),
                    elapsed |-> sw.elapsed + t]
    /\ UNCHANGED <<stopVars, sockVars, dlVars, portVars, renderVars, spaceVars, ciVars>>
    /\ UNCHANGED <<peVars>>
    /\ UNCHANGED <<defVars>>
    /\ UNCHANGED <<mainVars, cfgVars, hostVars, imgVars, cleanup_log, svcVars, virtVars,
                   prepVars, waitVars, console_state>>

\* _wait_for_libvirt is called in a rootful or a rootless container
InitSocketWaitAlone ==
    \E rl \in BOOLEAN :
        /\ InitMain("called_alone", FALSE, FALSE)
        /\ InitHost(rl, FALSE, FALSE)
        /\ InitFiles({}, 0)
        /\ console_requested = FALSE
        /\ InitLibvirt("none", "none", FALSE, FALSE, 0, NoStart)
        /\ InitDisk(MakeCfg(FALSE, FALSE, "none", FALSE, FALSE, FALSE, FALSE, FALSE, <<"hd">>),
                    NoDisk, FALSE)
        /\ InitSignals
        /\ InitServices(<<"virtlogd", "libvirtd">>)
        /\ InitStop({})
        /\ InitSockets([p \in Range(SocketPaths) |-> "absent"])
        /\ InitDownload(DEFAULT_RETRIES, "absent")
        /\ InitPorts(DefaultPorts)
        /\ InitRender(DefaultRender)
        /\ InitSpace(2 * MaxDiskSize)
        /\ InitGuestWait
        /\ InitSocketWait
        /\ InitDefine
        /\ InitParseBoot

NextSocketWait == BeginSocketWait \/ WaitForPath

SpecSocketWait == InitSocketWaitAlone /\ [][NextSocketWait]_vars


\* config.py 84-130 and 388-411: parse_env over every boot-related
\* environment
ParseEnvBoot ==
    /\ pc = "called_alone" /\ pe.state = "idle"
    /\ \E iso \in BOOLEAN, base \in BaseImageEnvs, blankEnv \in BlankDiskEnvs,
          raw \in SeqsUpTo(BootDevices, MaxBootLen), netBoot \in BOOLEAN,
          ipxe \in BOOLEAN, override \in RomOverrides, default \in DefaultRoms :
          pe' = ParseBoot(iso, base, blankEnv, raw, netBoot, ipxe, override, default)
    /\ UNCHANGED <<stopVars, sockVars, dlVars, portVars, renderVars, spaceVars, ciVars>>
    /\ UNCHANGED <<swVars, defVars>>
    /\ UNCHANGED <<mainVars, cfgVars, hostVars, imgVars, cleanup_log, svcVars, virtVars,
                   prepVars, waitVars, console_state>>

\* parse_env alone
InitParseBootAlone ==
    /\ InitMain("called_alone", FALSE, FALSE)
    /\ InitHost(FALSE, FALSE, FALSE)
    /\ InitFiles({}, 0)
    /\ console_requested = FALSE
    /\ InitLibvirt("none", "none", FALSE, FALSE, 0, NoStart)
    /\ InitDisk(MakeCfg(FALSE, FALSE, "none", FALSE, FALSE, FALSE, FALSE, FALSE, <<"hd">>),
                NoDisk, FALSE)
    /\ InitSignals
    /\ InitServices(<<"virtlogd", "libvirtd">>)
    /\ InitStop({})
    /\ InitSockets([p \in Range(SocketPaths) |-> "absent"])
    /\ InitDownload(DEFAULT_RETRIES, "absent")
    /\ InitPorts(DefaultPorts)
    /\ InitRender(DefaultRender)
    /\ InitSpace(2 * MaxDiskSize)
    /\ InitGuestWait
    /\ InitSocketWait
    /\ InitDefine
    /\ InitParseBoot

NextParseBoot == ParseEnvBoot

SpecParseBoot == InitParseBootAlone /\ [][NextParseBoot]_vars


\* ------------------------------------------------------------- claims
FullTeardown == <<"cleanup", "close", "stop">>

MainFinished == outcome \in {"returned", "uncaught"}

SigtermHandled == \E i \in 1..Len(siglog) : siglog[i].sig = "SIGTERM"

SigintCount == Cardinality({i \in 1..Len(siglog) : siglog[i].sig = "SIGINT"})

\* C1: once main has entered its try block, whenever main finishes (by a
\* return or by an exception leaving it) cleanup, close and stop have run,
\* in this order.
C1_TeardownOnEveryExit ==
    (entered_try /\ MainFinished) => teardown = FullTeardown

\* C2: when main finishes, by a return or by an exception, no service
\* child spawned by the Supervisor is still running.
C2_ChildrenTerminatedOnExit ==
    MainFinished => alive = {}

\* C3: a run in which an error was raised ends with main returning 1 (never
\* with an exception leaving main), and main returns 0 only in runs without
\* an error.
C3_ErrorsReturnOne ==
    /\ (MainFinished /\ err # "none") => (outcome = "returned" /\ retcode = 1)
    /\ (outcome = "returned" /\ retcode = 0) => err = "none"

\* C4: inside wait_until_stopped graceful shutdown is initiated at most
\* once, and once a SIGTERM was handled it has been initiated: by the first
\* SIGTERM itself, unless a confirmed SIGINT had initiated it earlier.
C4_SigtermShutsDownOnce ==
    /\ shutdown_calls <= 1
    /\ \A k \in 1..Len(siglog) :
          (siglog[k].sig = "SIGTERM" /\ \A j \in 1..(k - 1) : siglog[j].sig = "SIGINT")
          => /\ shutdown_calls = 1
             /\ shutdown_at \in 1..k
             /\ shutdown_at < k => siglog[shutdown_at].sig = "SIGINT"

\* C4 witness: a SIGTERM was handled first, another signal after it, and
\* shutdown was initiated once, by the SIGTERM.
C4_Witness ==
    /\ Len(siglog) >= 2
    /\ siglog[1].sig = "SIGTERM"
    /\ shutdown_at = 1
    /\ shutdown_calls = 1

\* C5: when the process has ended after a SIGTERM was handled by
\* wait_until_stopped, cleanup, close and stop have all run.
C5_CleanupAfterSigterm ==
    (SigtermHandled /\ outcome # "running") => teardown = FullTeardown

\* C6: a SIGINT initiates shutdown only if an earlier SIGINT was handled
\* less than 3 seconds before it; with a single SIGINT and no SIGTERM
\* neither domain.shutdown nor domain.destroy has been called.
C6_SigintNeedsSecondPress ==
    /\ (shutdown_at # 0 /\ siglog[shutdown_at].sig = "SIGINT")
       => \E j \in 1..(shutdown_at - 1) :
             /\ siglog[j].sig = "SIGINT"
             /\ siglog[shutdown_at].t - siglog[j].t < DOUBLE_PRESS_WINDOW
    /\ (~SigtermHandled /\ SigintCount <= 1)
       => (shutdown_calls = 0 /\ destroy_calls = 0)

\* C6 witness: two SIGINTs, the second of which initiated the shutdown.
C6_Witness ==
    /\ Len(siglog) = 2
    /\ siglog[1].sig = "SIGINT" /\ siglog[2].sig = "SIGINT"
    /\ shutdown_at = 2
    /\ shutdown_calls = 1

\* C7 as claimed: whenever the first create failed with a message that
\* contains passt or backend, the domain was re-defined once and create was
\* called a second time.
C7_FallbackOnEveryBackendError ==
    (start_in.failed /\ NetworkBackendError(start_in.msg))
    => (redefines = 1 /\ create_calls = 2)

\* C7 amended: after a failed first create, the domain is re-defined exactly
\* when the message contains passt or backend and not cgroup and XMLDesc
\* returned XML holding the passt backend element; create is retried, once,
\* exactly when that re-define returned a domain; create is never called
\* more than twice.
C7_FallbackWhenPasstInXml ==
    /\ create_calls <= 2
    /\ start_in.failed =>
          LET attempt == /\ NetworkBackendError(start_in.msg)
                         /\ "cgroup" \notin start_in.msg
                         /\ start_in.passt
                         /\ start_in.xmlDescOk
          IN  /\ redefines = (IF attempt THEN 1 ELSE 0)
              /\ create_calls = (IF attempt /\ start_in.defineRes = "ok" THEN 2 ELSE 1)

\* C7 witness: the first create failed on the network backend and the
\* fallback re-defined the domain and called create again.
C7_Witness ==
    /\ start_in.failed
    /\ NetworkBackendError(start_in.msg)
    /\ redefines = 1
    /\ create_calls = 2

\* C8: whenever this run has written the install marker, the domain was
\* started, persist is true and no error or interrupt has been raised in
\* the run.
C8_MarkerOnlyOnCleanExit ==
    marker_written
    => (vm_started /\ cfg.persist /\ pending = "none" /\ err = "none")

\* C9 as claimed: the smart install-skip is applied exactly when a boot ISO
\* was resolved, persist is true, the marker is present and FORCE_ISO is
\* unset, and then the ISO is dropped.
C9_SkipOnFourConditions ==
    skip.decided =>
       /\ skip.applied <=> (skip.iso /\ cfg.persist /\ marker /\ ~cfg.force_iso)
       /\ skip.applied => ~boot_iso

\* C9 amended: the smart install-skip is applied exactly when a boot ISO
\* was resolved, persist is true, the working disk found by prepare was
\* larger than 100 MiB (so it was reused), the marker is present and
\* FORCE_ISO is unset, and then the ISO is dropped.
C9_SkipNeedsReusedDisk ==
    skip.decided =>
       /\ skip.applied <=> (/\ skip.iso
                            /\ cfg.persist
                            /\ disk_before > REUSE_THRESHOLD
                            /\ marker
                            /\ ~cfg.force_iso)
       /\ skip.applied => ~boot_iso

\* C9 witness: prepare applied the skip and dropped a resolved ISO.
C9_Witness ==
    /\ skip.decided /\ skip.applied /\ skip.iso
    /\ ~boot_iso

\* C10: after the smart install-skip boot_order holds no cdrom and begins
\* with hd.
C10_HdFirstAfterSkip ==
    skip.applied =>
       /\ ~InSeq("cdrom", cfg.boot_order)
       /\ cfg.boot_order # <<>>
       /\ Head(cfg.boot_order) = "hd"

\* C11 as claimed: in a run that starts with an ISO boot source, persist
\* on, the install marker present and FORCE_ISO unset, the boot source is
\* never downloaded.
C11_NoIsoDownloadWhenInstalled ==
    (cfg.boot_from = "iso" /\ cfg.persist /\ marker /\ ~cfg.force_iso)
    => iso_downloads = 0

C13_SecondPrepareWritesNothing ==
    (run = 2 /\ cfg.persist) => writes \subseteq {"marker"}

\* C14: with persist on, a working disk whose file size is at least
\* 100 MiB is reused: it is neither removed nor created anew.
C14_ReusedFromThreshold ==
    (disk_before # Unseen /\ cfg.persist /\ disk_before >= REUSE_THRESHOLD) =>
       /\ disk_reused
       /\ writes \cap {"work_disk_removed", "work_disk_created"} = {}

C17_ConnectOnlyAfterSocket ==
    connect_attempted => socket_seen

\* C17 amended: connect is attempted only after _wait_for_libvirt returned;
\* in a rootful container it is attempted only in runs in which the
\* libvirtd socket appeared, in a rootless container also without it.
C17_ConnectAfterSocketUnlessRootless ==
    /\ connect_attempted => (socket_seen \/ rootless)
    /\ (pc \in {"start_sushy", "vm_init", "connect"} /\ ~rootless) => socket_seen

\* C17 witness: a rootless run attempted connect although no libvirtd
\* socket had appeared.
C17_Witness ==
    /\ rootless /\ ~socket_seen
    /\ connect_attempted

PrepareOrder ==
    <<"kvm_gating", "resolve_boot_from", "ensure_base_image", "ensure_work_image",
      "smart_install_skip", "prepare_firmware", "start_tpm", "generate_cloud_init",
      "define_domain">>

ExpectedSteps ==
    IF cfg.blank_work_disk THEN Without(PrepareOrder, "ensure_base_image")
    ELSE PrepareOrder

StepAt(p) ==
    CASE p = "prep_kvm" -> "kvm_gating"
      [] p = "prep_resolve" -> "resolve_boot_from"
      [] p = "prep_base" -> "ensure_base_image"
      [] p = "prep_work" -> "ensure_work_image"
      [] p = "prep_skip" -> "smart_install_skip"
      [] p = "prep_firmware" -> "prepare_firmware"
      [] p = "prep_tpm" -> "start_tpm"
      [] p = "prep_cloudinit" -> "generate_cloud_init"
      [] p = "prep_define" -> "define_domain"

\* C19: the steps prepare has started are a prefix of KVM gating,
\* resolve_boot_from, ensure_base_image (left out for a blank disk),
\* ensure_work_image, smart install-skip, prepare_firmware, start_tpm,
\* generate_cloud_init, define_domain; the step about to start is the next
\* one of that list, and no step starts once an error was raised.
C19_PrepareStepsInOrder ==
    /\ Len(steps) <= Len(ExpectedSteps)
    /\ steps = SubSeq(ExpectedSteps, 1, Len(steps))
    /\ pc \in PreparePcs =>
          /\ err = "none" /\ pending = "none"
          /\ Len(steps) < Len(ExpectedSteps)
          /\ ExpectedSteps[Len(steps) + 1] = StepAt(pc)
    /\ pc = "start" => steps = ExpectedSteps

\* C19 witness: prepare completed for a blank disk without running
\* ensure_base_image.
C19_Witness ==
    /\ pc = "start"
    /\ cfg.blank_work_disk
    /\ steps = Without(PrepareOrder, "ensure_base_image")

\* C20: every call of cleanup returns normally and has run the orphan-QEMU
\* sweep, whichever of stopping swtpm, isActive, destroy and undefine
\* failed.
C20_CleanupBestEffort ==
    /\ cleanup_log.sweeps = cleanup_log.calls
    /\ ~cleanup_log.raised
    /\ cleanup_log.calls = 1 => (teardown # <<>> /\ Head(teardown) = "cleanup")

\* C20 witness: stopping swtpm, destroy and undefine all failed and the
\* sweep ran.
C20_Witness ==
    /\ cleanup_log.calls = 1
    /\ cleanup_log.failed = {"swtpm", "destroy", "undefine"}
    /\ cleanup_log.sweeps = 1

\* C21: once cleanup has run, without persistence the VM directory with
\* its working disk is gone, and with persistence the working disk is
\* still there.
C21_VmDirRemovedUnlessPersist ==
    cleanup_log.calls > 0 =>
       IF cfg.persist THEN work_disk # NoDisk
       ELSE work_disk = NoDisk /\ ~marker /\ "seed_iso" \notin files

\* C22: the first call of ServiceManager.stop sends SIGTERM to exactly the
\* tracked children that still run, each once, then SIGKILL to exactly
\* those of them that did not exit within the wait, and leaves no tracked
\* child running; every later call sends nothing and changes nothing.
C22_StopIdempotent ==
    [][stop_calls' = stop_calls + 1 =>
         IF stop_calls = 0
         THEN /\ \A p \in Range(ServiceChildren) :
                    /\ <<"SIGTERM", p>> \in Range(sent')
                          <=> (p \in Range(processes) /\ p \in alive)
                    /\ <<"SIGKILL", p>> \in Range(sent')
                          <=> (p \in Range(processes) /\ p \in alive /\ p \in stubborn)
              /\ Len(sent') = Cardinality(Range(sent'))
              /\ \A i, j \in 1..Len(sent') :
                    (sent'[i][1] = "SIGKILL" /\ sent'[j][1] = "SIGTERM") => j < i
              /\ alive' \cap Range(processes) = {}
              /\ svc_shutdown'
         ELSE UNCHANGED <<sent, alive, processes, svc_shutdown>>]_vars

\* C22 witness: stop was called twice on a running child that ignores
\* SIGTERM and one that had exited; the first got SIGTERM and SIGKILL, the
\* second no signal.
C22_Witness ==
    /\ stop_calls = 2
    /\ processes = <<"virtlogd", "libvirtd">>
    /\ sent = <<<<"SIGTERM", "libvirtd">>, <<"SIGKILL", "libvirtd">>>>

\* C23 as claimed: _cleanup_socket unlinks an existing socket exactly when
\* the probe connection timed out or was refused.
C23_UnlinkIffTimeoutOrRefused ==
    (sock_last.path # "none" /\ sock_last.found \in {"live", "stale", "hung"}) =>
       (sock_last.unlink <=> sock_last.probe \in {"timeout", "ECONNREFUSED"})

\* C23 amended: _cleanup_socket calls unlink on an existing socket exactly
\* when the probe timed out, was refused or failed with ENOENT; a socket
\* that accepted the probe, or whose probe failed with another OSError, is
\* left as it is, and so is a path that is not a socket; nothing is removed
\* without that unlink.
C23_UnlinkIffProbeSaysStale ==
    sock_last.path # "none" =>
       /\ sock_last.unlink <=>
             /\ sock_last.found \in {"live", "stale", "hung"}
             /\ sock_last.probe \in {"timeout", "ECONNREFUSED", "ENOENT"}
       /\ sock_last.removed => sock_last.unlink
       /\ sock_last.probe \in {"connected", "OSError"} =>
             (~sock_last.removed /\ sockets[sock_last.path] = sock_last.found)
       /\ sock_last.found = "regular" =>
             (sock_last.probe = "none" /\ sockets[sock_last.path] = "regular")

\* C23 witness: the socket vanished before the probe, the probe failed with
\* ENOENT and unlink was called and found nothing.
C23_Witness ==
    /\ sock_last.path = "/run/libvirt/libvirt-sock"
    /\ sock_last.found = "stale"
    /\ sock_last.probe = "ENOENT"
    /\ sock_last.unlink /\ ~sock_last.removed

\* C24: download_file_with_retry makes at most retries attempts; the sleeps
\* between failed attempts are 5, 10, 20 (and 20 from then on), one after
\* each failed attempt but the last; it returns at the first attempt that
\* succeeds and raises the ManagerError of the last attempt when all
\* retries attempts failed.
C24_RetryWithBackoff ==
    /\ dl.attempt <= dl.retries
    /\ \A i \in 1..Len(dl.waits) : dl.waits[i] = (IF i = 1 THEN 5 ELSE IF i = 2 THEN 10 ELSE 20)
    /\ dl.result = "running" => Len(dl.waits) = dl.attempt
    /\ dl.result # "running" => Len(dl.waits) = dl.attempt - 1
    /\ dl.result = "returned" => dl.last \notin {"http_error", "url_error"}
    /\ dl.result = "ManagerError" =>
          (dl.attempt = dl.retries /\ dl.last \in {"http_error", "url_error"})

\* C24 witness: with five retries every attempt failed, the sleeps were 5,
\* 10, 20 and 20 seconds and the last error was raised.
C24_Witness ==
    /\ dl.retries = 5 /\ dl.attempt = 5
    /\ dl.waits = <<5, 10, 20, 20>>
    /\ dl.result = "ManagerError"

\* C25: whenever a download has ended, the destination holds either what it
\* held before or the whole body, never a part of it, and no temporary
\* file is left behind unless the download succeeded in renaming it.
C25_NoPartialDestination ==
    dl.attempt > 0 =>
       /\ dest \in {"absent", "old", "complete"}
       /\ dest = "complete" <=> dl.last = "ok"
       /\ tmp_left = 0

\* the active ports of a returned configuration, one entry per active port
\* option and per port_forwards entry
ActivePortList(c) ==
    <<c.ssh_port>>
    \o (IF c.vnc_on THEN <<c.vnc_port>> ELSE <<>>)
    \o (IF c.novnc_enabled THEN <<c.novnc_port>> ELSE <<>>)
    \o (IF c.redfish_enabled THEN <<c.redfish_port>> ELSE <<>>)
    \o [i \in 1..Len(c.port_forwards) |-> c.port_forwards[i].host_port]

\* C26: in every configuration parse_env returns, ssh_port, vnc_port (VNC or
\* noVNC on), novnc_port (noVNC on), redfish_port (Redfish on) and the
\* host_port of every port_forwards entry are pairwise distinct.
C26_ActivePortsDistinct ==
    port_cfg.state = "returned" =>
       LET ports == ActivePortList(port_cfg)
       IN  \A i, j \in 1..Len(ports) : i # j => ports[i] # ports[j]

\* C27: when parse_env raises, main returns 1, no service child has been
\* spawned and no libvirt connection has been attempted.
C27_ParseEnvErrorReturnsOne ==
    [][(pc = "parse_env" /\ err' # "none") =>
          /\ outcome' = "returned" /\ retcode' = 1
          /\ processes' = <<>> /\ alive' = {}
          /\ ~connect_attempted' /\ conn' = "none"]_vars

\* the <boot order> ranks of a rendered domain XML
Ranks(xml) == {i \in 1..Len(xml.devices) : xml.devices[i].rank # NoRank}

\* C28: every render of a VMConfig parse_env can return yields a domain
\* XML, and in it no two devices carry the same <boot order> rank.
C28_BootRanksDistinct ==
    \A n \in 1..Len(rendered) :
        /\ rendered[n].result = "xml"
        /\ \A i, j \in Ranks(rendered[n]) :
              rendered[n].devices[i].rank = rendered[n].devices[j].rank => i = j

\* C29: two successive renders by the same VMManager produce the same XML,
\* each NIC with the MAC it was given on the first render.
C29_RendersIdentical ==
    Len(rendered) >= 2 =>
        /\ rendered[1].result = "xml"
        /\ rendered[2] = rendered[1]
        /\ \A i \in 1..Len(render_cfg.nics) : network_macs[i] # NoMac

\* the space available is known and smaller than the requested disk size
Shortfall == cfg.disk_size # 0 /\ free_space # 0 /\ free_space < cfg.disk_size

DiskWrites == {"work_disk_created", "work_disk_resized", "work_disk_removed"}

\* C30 (as claimed): when the space available in the VM directory is smaller
\* than the requested size, work-image preparation fails and no disk is
\* created, copied or resized.
C30_ShortfallFailsPreparation ==
    (space_log.checked /\ Shortfall) =>
        /\ err # "none"
        /\ writes \cap DiskWrites = {}
        /\ work_disk = disk_before /\ vsize = vsize_before

\* C30 (amended): with a disk size requested, a known shortfall of free
\* space is logged as ERROR, less than twice the size as WARN, and the check
\* itself never fails the preparation.
C30_ShortfallIsLoggedOnly ==
    /\ space_log.checked <=> (pc # "prep_work" /\ cfg.disk_size # 0)
    /\ space_log.checked =>
          /\ ~space_log.raised
          /\ space_log.level = "ERROR" <=> Shortfall
          /\ space_log.level = "WARN" <=>
                (free_space >= cfg.disk_size /\ free_space < 2 * cfg.disk_size)

\* a blank disk of the requested size was created although the VM directory
\* has less free space than that
C30_Witness ==
    /\ space_log.checked /\ Shortfall /\ space_log.level = "ERROR"
    /\ cfg.blank_work_disk /\ "work_disk_created" \in writes
    /\ vsize = cfg.disk_size /\ pc = "prep_skip" /\ err = "none"

\* C31: the cloud-init wait is given up for exec failures exactly when the
\* last CI_FAIL_LIMIT guest-exec calls all failed, and ci_failures counts
\* the failures since the last successful call.
C31_SkipAfterThirtyInARow ==
    /\ ci.failures = ci.calls - ci.last_ok
    /\ ci.state = "skipped" <=> ci.calls - ci.last_ok >= CI_FAIL_LIMIT
    /\ ci.state = "skipped" => ci.calls - ci.last_ok = CI_FAIL_LIMIT

\* a call succeeded, then CI_FAIL_LIMIT calls in a row failed
C31_Witness ==
    /\ ci.state = "skipped" /\ ci.last_ok > 0
    /\ ci.calls = ci.last_ok + CI_FAIL_LIMIT

\* C32: when _wait_for_libvirt fails (rootful) or warns and continues
\* (rootless), it has waited at most 15 seconds in total.
C32_GivesUpWithinFifteenSeconds ==
    sw.step \in {"failed", "warned"} => sw.elapsed <= SOCKET_TIMEOUT

\* C33: graceful shutdown calls domain.shutdown first, and domain.destroy
\* exactly when that call raised a libvirt error.
C33_DestroyIffShutdownFailed ==
    /\ destroy_calls <= shutdown_calls
    /\ shutdown_calls > 0 <=> shutdown_res # "none"
    /\ destroy_calls > 0 <=> shutdown_res = "libvirtError"

\* a SIGTERM was handled, domain.shutdown raised and domain.destroy was
\* called once
C33_Witness ==
    /\ SigtermHandled /\ shutdown_calls = 1
    /\ shutdown_res = "libvirtError" /\ destroy_calls = 1

\* C34: when _define_domain has run, an existing domain has been adopted
\* without a defineXML call, and for a domain that did not exist defineXML
\* has been called exactly once.
C34_AdoptOrDefineOnce ==
    define_log.ran =>
        IF define_log.exists
        THEN define_log.define_calls = 0 /\ domain = "defined"
        ELSE define_log.define_calls = 1

\* fields of the configuration that prepare writes
WrittenFields == {"boot_order", "image_format"}

\* C35 (as stated): within one run no step - prepare, start, XML rendering,
\* cleanup - modifies any field of the VMConfig parse_env returned.
C35_ConfigNeverModified == [][(run' = run) => (cfg' = cfg)]_vars

\* C35 (amended): within one run the VMConfig is modified only by prepare,
\* in its steps resolve_boot_from, ensure_base_image and the smart
\* install-skip, and only in boot_order and image_format; an applied skip
\* stores the rewritten boot order in it.  start, rendering and cleanup
\* leave every field alone.
C35_OnlyPrepareRewritesTwoFields ==
    [][(run' = run) =>
         /\ (cfg' # cfg) =>
               /\ pc \in {"prep_resolve", "prep_base", "prep_skip"}
               /\ \A f \in DOMAIN cfg \ WrittenFields : cfg'[f] = cfg[f]
         /\ (~skip.decided /\ skip'.applied) =>
               cfg'.boot_order = SkipBootOrder(cfg.boot_order)]_vars

\* C35 witness: the VM is about to be started with a configuration whose boot
\* order is no longer the one parse_env returned.
C35_Witness ==
    pc = "start" /\ outcome = "running" /\ skip.applied /\ cfg.boot_order # order_before

\* C36 (as stated): every VMConfig parse_env returns for a requested ISO and
\* no base image has blank_work_disk set and cdrom first in boot_order.
C36_IsoMeansBlankAndCdromFirst ==
    (pe.state = "returned" /\ pe.iso /\ pe.base # "path") =>
        pe.blank_work_disk /\ pe.boot_order[1] = "cdrom"

\* C36 (amended): for a requested ISO and no base image, boot_order holds
\* cdrom, and cdrom is first when BOOT_ORDER did not name it and iPXE is off;
\* blank_work_disk is set unless BLANK_DISK was set to a false value (and
\* BASE_IMAGE is not the word blank).
C36_IsoDefaultsBlankAndCdrom ==
    (pe.state = "returned" /\ pe.iso /\ pe.base # "path") =>
        /\ InSeq("cdrom", pe.boot_order)
        /\ (~pe.ipxe_enabled /\ ~InSeq("cdrom", pe.raw)) => pe.boot_order[1] = "cdrom"
        /\ pe.blank_work_disk <=> (pe.blank_env # "false" \/ pe.base = "blank")

\* C36 witness: an ISO with nothing else set gives a blank disk and
\* cdrom before hd.
C36_Witness ==
    /\ pe.state = "returned" /\ pe.iso /\ pe.base = "unset" /\ pe.blank_env = "unset"
    /\ pe.raw = <<>> /\ ~pe.ipxe_enabled
    /\ pe.blank_work_disk /\ pe.boot_order = <<"cdrom", "hd">>

C38_ShutdownEndsTheWait ==
    (shutdown_requested /\ pc = "wait_loop") ~> (pc # "wait_loop")

\* the loop does end once the domain is no longer active
C38_InactiveEndsTheWait ==
    (~domain_active /\ pc = "wait_loop") ~> (pc # "wait_loop")

\* the SIGINT before the one at index i of siglog, 0 when there is none
PrevSigint(i) ==
    LET before == {j \in 1..(i - 1) : siglog[j].sig = "SIGINT"}
    IN  IF before = {} THEN 0 ELSE CHOOSE j \in before : \A k \in before : k <= j

\* the signal at index i is a SIGINT that came DOUBLE_PRESS_WINDOW seconds or
\* more after the SIGINT before it
LateSigint(i) ==
    /\ siglog[i].sig = "SIGINT"
    /\ PrevSigint(i) # 0
    /\ siglog[i].t - siglog[PrevSigint(i)].t >= DOUBLE_PRESS_WINDOW

\* C39: a SIGINT that arrives 3 seconds or more after the previous SIGINT
\* does not initiate the shutdown and opens a new window at its own time;
\* the SIGINT after it initiates the shutdown exactly when it comes less
\* than 3 seconds later (and no shutdown was initiated before).
C39_LateSigintIsFirstPress ==
    \A i \in 1..Len(siglog) :
        LateSigint(i) =>
            /\ shutdown_at # i
            /\ (i = Len(siglog)) => first_sigint_time = siglog[i].t
            /\ \A k \in (i + 1)..Len(siglog) :
                  (siglog[k].sig = "SIGINT" /\ PrevSigint(k) = i) =>
                      ((shutdown_at = k) <=>
                          /\ siglog[k].t - siglog[i].t < DOUBLE_PRESS_WINDOW
                          /\ shutdown_at \notin 1..(k - 1))

\* C39 witness: a SIGINT, a second one three seconds later that only opened a
\* new window, and a third one within that window that initiated the shutdown.
C39_Witness ==
    /\ Len(siglog) = 3 /\ \A i \in 1..3 : siglog[i].sig = "SIGINT"
    /\ LateSigint(2) /\ siglog[3].t - siglog[2].t < DOUBLE_PRESS_WINDOW
    /\ shutdown_at = 3 /\ shutdown_requested

\* C40: whenever download_file_with_retry has returned normally, at least
\* one attempt was made, the last one downloaded the whole body and the
\* destination holds it, whatever the value of retries.
C40_ReturnMeansDownloaded ==
    dl.result = "returned" =>
        /\ dl.attempt >= 1
        /\ dl.last = "ok"
        /\ dest = "complete"

\* download_file_with_retry returned without having called download_file
C40_ReturnedUnattempted ==
    dl.result = "returned" /\ dl.attempt = 0 /\ dest = "absent"

====
